---------------------------- MODULE Spec2Model ----------------------------
(***************************************************************************)
(* State-machine model of the SummerDuck drag-racing dashboard:            *)
(*   - the page shell (Home) that mounts one of three views,               *)
(*   - each view's fetch / parse life cycle (loading, error, raceData),    *)
(*   - the aggregation functions processData (dashboard),                  *)
(*     processStatistics (statistics view) and the per-driver rollup       *)
(*     effect plus the radar normalisation (drivers view).                 *)
(*                                                                         *)
(* JavaScript numbers are modelled as exact values: a rational n/d, null,  *)
(* NaN or a signed Infinity.  Binary floating-point rounding error is not  *)
(* modelled; every division, rounding (Math.round, toFixed) and comparison *)
(* is computed, with the IEEE results for x/0, 0/0 and Infinity.           *)
(***************************************************************************)
EXTENDS Integers, Sequences, FiniteSets, TLC

VARIABLES
    activeComponent,   \* Home: which view is mounted
    pc,                \* position of the mounted view's fetchData
    raceData,          \* useState<RaceRecord[]>([])
    loading,           \* useState(true)
    error,             \* useState<string | null>(null)
    \* DashboardComponent derived state
    driverWinRates, reactionTimes, performanceByRace, avgSpeedByDriver,
    \* StatisticsComponent derived state
    bestET, topSpeed, bestReaction, best60ft, mostWins, bestWinRate, winFactors,
    reactionVsET, sixtyVsET, consistencyRanking, improvementRanking,
    mphImprovementRanking, raceCountByDate, performanceByTime, heatMap,
    \* DriversComponent state
    drivers, selectedDriver, driverStats, performanceTrend, opponentStats,
    effectPending,     \* the rollup effect is scheduled (its deps changed)
    \* the fixture generator: simulateTournament's parameter and locals
    eventDate, tournamentDrivers, currentRound, nextRound, loopI, roundNumber,
    raceNumber, results,
    tpc                \* position of the generator

dashVars  == <<driverWinRates, reactionTimes, performanceByRace, avgSpeedByDriver>>
statsVars == <<bestET, topSpeed, bestReaction, best60ft, mostWins, bestWinRate, winFactors,
               reactionVsET, sixtyVsET, consistencyRanking, improvementRanking,
               mphImprovementRanking, raceCountByDate, performanceByTime, heatMap>>
drvVars   == <<drivers, selectedDriver, driverStats, performanceTrend, opponentStats,
               effectPending>>
appVars == <<activeComponent, pc, raceData, loading, error, dashVars, statsVars, drvVars>>
tournamentVars == <<eventDate, tournamentDrivers, currentRound, nextRound, loopI,
                    roundNumber, raceNumber, results, tpc>>
vars == <<appVars, tournamentVars>>

-----------------------------------------------------------------------------
(* JavaScript number values *)

RECURSIVE GCD(_, _)
GCD(a, b) == IF b = 0 THEN a ELSE GCD(b, a % b)

Abs(x) == IF x < 0 THEN -x ELSE x
Sign(x) == IF x < 0 THEN -1 ELSE IF x > 0 THEN 1 ELSE 0
Min(a, b) == IF a < b THEN a ELSE b

JsNull == [k |-> "null", n |-> 0, d |-> 1]
NaN == [k |-> "NaN", n |-> 0, d |-> 1]
Inf(s) == [k |-> "Inf", n |-> s, d |-> 1]

\* the number n/d (d # 0) in lowest terms with a positive denominator
Rat(n, d) ==
    LET g == GCD(Abs(n), Abs(d))
    IN [k |-> "num", n |-> (Sign(d) * n) \div g, d |-> Abs(d) \div g]

Num(i) == Rat(i, 1)

\* ToNumber: null converts to 0
ToNum(a) == IF a.k = "null" THEN Num(0) ELSE a

IsNaN(a) == a.k = "NaN"
IsFinite(a) == a.k = "num"

\* truthiness of a number-or-null value: null, 0 and NaN are falsy
Truthy(a) == a.k = "Inf" \/ (a.k = "num" /\ a.n # 0)

Neg(a) == IF a.k = "NaN" THEN NaN ELSE [a EXCEPT !.n = -a.n]

Add(a0, b0) ==
    LET a == ToNum(a0)
        b == ToNum(b0)
    IN IF a.k = "NaN" \/ b.k = "NaN" THEN NaN
       ELSE IF a.k = "Inf" THEN (IF b.k = "Inf" /\ b.n # a.n THEN NaN ELSE a)
       ELSE IF b.k = "Inf" THEN b
       ELSE Rat(a.n * b.d + b.n * a.d, a.d * b.d)

Sub(a, b) == Add(a, Neg(ToNum(b)))

Mul(a0, b0) ==
    LET a == ToNum(a0)
        b == ToNum(b0)
    IN IF a.k = "NaN" \/ b.k = "NaN" THEN NaN
       ELSE IF a.k = "Inf" \/ b.k = "Inf"
            THEN (IF a.n = 0 \/ b.n = 0 THEN NaN ELSE Inf(Sign(a.n) * Sign(b.n)))
       ELSE Rat(a.n * b.n, a.d * b.d)

\* IEEE division: x/0 is a signed Infinity, 0/0 and Inf/Inf are NaN
Div(a0, b0) ==
    LET a == ToNum(a0)
        b == ToNum(b0)
    IN IF a.k = "NaN" \/ b.k = "NaN" THEN NaN
       ELSE IF a.k = "Inf"
            THEN (IF b.k = "Inf" THEN NaN
                  ELSE Inf(IF b.n < 0 THEN -a.n ELSE a.n))
       ELSE IF b.k = "Inf" THEN Num(0)
       ELSE IF b.n = 0 THEN (IF a.n = 0 THEN NaN ELSE Inf(Sign(a.n)))
       ELSE Rat(a.n * b.d, a.d * b.n)

\* a < b; every comparison with NaN is false
Lt(a0, b0) ==
    LET a == ToNum(a0)
        b == ToNum(b0)
    IN IF a.k = "NaN" \/ b.k = "NaN" THEN FALSE
       ELSE IF a.k = "Inf" THEN a.n < 0 /\ ~(b.k = "Inf" /\ b.n < 0)
       ELSE IF b.k = "Inf" THEN b.n > 0
       ELSE a.n * b.d < b.n * a.d

Gt(a, b) == Lt(b, a)
Le(a0, b0) == Lt(a0, b0) \/ (~IsNaN(ToNum(a0)) /\ ToNum(a0) = ToNum(b0))
Ge(a, b) == Le(b, a)

\* Math.round of a finite number: the nearest integer, halves towards +Infinity
MathRound(a) == IF a.k # "num" THEN a ELSE Num((2 * a.n + a.d) \div (2 * a.d))

RECURSIVE Pow10(_)
Pow10(f) == IF f = 0 THEN 1 ELSE 10 * Pow10(f - 1)

\* parseFloat(x.toFixed(f)): x rounded to f decimals (NaN stays NaN)
ToFixed(a, f) ==
    IF a.k # "num" THEN a
    ELSE Rat((2 * a.n * Pow10(f) + a.d) \div (2 * a.d), Pow10(f))

-----------------------------------------------------------------------------
(* Array helpers *)

Map(s, F(_)) == SubSeq([i \in 1..Len(s) |-> F(s[i])], 1, Len(s))

\* Array.prototype.slice(0, n)
Slice(s, n) == SubSeq(s, 1, Min(n, Len(s)))

\* the distinct elements of s in order of first occurrence (Map / object
\* key insertion order, Array.from(new Set(..)))
Uniq(s) ==
    LET idx == SelectSeq([i \in 1..Len(s) |-> i],
                         LAMBDA i : \A j \in 1..(i - 1) : s[j] # s[i])
    IN SubSeq([p \in 1..Len(idx) |-> s[idx[p]]], 1, Len(idx))

\* Array.prototype.sort with a consistent comparator: Before(a, b) is
\* "compare(a, b) < 0".  The sort is stable (ECMAScript 2019).
SortBy(s0, Before(_, _)) ==
    LET n == Len(s0)
        s == SubSeq(s0, 1, n)
        rank == SubSeq([i \in 1..n |-> Cardinality({j \in 1..n :
                           Before(s[j], s[i]) \/ (~Before(s[i], s[j]) /\ j < i)}) + 1],
                       1, n)
    IN SubSeq([p \in 1..n |-> s[CHOOSE i \in 1..n : rank[i] = p]], 1, n)

\* values.reduce((sum, val) => sum + val, 0)
RECURSIVE SumSeq(_)
SumSeq(s) == IF s = <<>> THEN Num(0) ELSE Add(SumSeq(SubSeq(s, 1, Len(s) - 1)), s[Len(s)])

\* Math.min(...values) / Math.max(...values) of a non-empty array
RECURSIVE MinSeq(_)
MinSeq(s) ==
    IF Len(s) = 1 THEN s[1]
    ELSE LET m == MinSeq(Tail(s)) IN IF Lt(s[1], m) THEN s[1] ELSE m

RECURSIVE MaxSeq(_)
MaxSeq(s) ==
    IF Len(s) = 1 THEN s[1]
    ELSE LET m == MaxSeq(Tail(s)) IN IF Gt(s[1], m) THEN s[1] ELSE m

\* a guard that tests truthiness alone
PresentIfTruthy(v) == Truthy(v)

\* the guard `v && v > 0` used on every metric before it is aggregated
Present(v) == Truthy(v) /\ Gt(v, Num(0))

-----------------------------------------------------------------------------
(* Race records *)

\* interface RaceRecord; '60ft', '330ft', '1/8ET', '1/8MPH' are written
\* Sixty, ThreeThirty, EighthET, EighthMPH
Row(dr, car, date, rn, rt, s60, s330, et, mph, opp, oppCar, wl) ==
    [Driver |-> dr, CarNo |-> car, Date |-> date, RaceNumber |-> rn,
     Reaction |-> rt, Sixty |-> s60, ThreeThirty |-> s330,
     EighthET |-> et, EighthMPH |-> mph, Opponent |-> opp,
     OpponentCarNo |-> oppCar, WinLoss |-> wl]

\* new Date(date).getTime(), in days since 1970-01-01
GetTime(date) ==
    CASE date = "2024-03-14" -> 19796
      [] date = "2024-03-21" -> 19803
      [] date = "2024-03-28" -> 19810

\* const [first, last] = driver.split(' ');
\* last ? `${first} ${last[0]}. ` : first      (dashboard win rates)
DisplayName(driver) ==
    CASE driver = "Al Ray" -> "Al R. "
      [] driver = "Bo Hart" -> "Bo H. "
      [] driver = "Cy" -> "Cy"
      [] driver = "Di Lane" -> "Di L. "
      [] driver = "Ed Moss" -> "Ed M. "
      [] driver = "Flo Nash" -> "Flo N. "
      [] driver = "Gus Orr" -> "Gus O. "

\* last ? `${first} ${last[0]}.` : first       (dashboard reaction and speed)
DisplayNameShort(driver) ==
    CASE driver = "Al Ray" -> "Al R."
      [] driver = "Bo Hart" -> "Bo H."
      [] driver = "Cy" -> "Cy"
      [] driver = "Di Lane" -> "Di L."
      [] driver = "Ed Moss" -> "Ed M."
      [] driver = "Flo Nash" -> "Flo N."
      [] driver = "Gus Orr" -> "Gus O."

\* dynamicTyping: true turns a field that reads 42 into the number 42; the
\* number is written as a value of its own, distinct from the string "42"
Number42 == "42 (number)"

\* typeof v === 'string'
IsString(v) == v # Number42

\* String(v): the value attribute of an <option>, e.target.value, a property key
StringOf(v) == IF v = Number42 THEN "42" ELSE v

DriversOf(data) == Uniq(Map(data, LAMBDA r : r.Driver))

\* Object.values / Object.entries of an object filled in the order keys:
\* integer-like keys first, the other keys in insertion order
ObjectKeyOrder(keys) ==
    SortBy(keys, LAMBDA a, b : StringOf(a) = "42" /\ StringOf(b) # "42")

RacesOf(data, driver) == SelectSeq(data, LAMBDA r : r.Driver = driver)
Count(s, P(_)) == Len(SelectSeq(s, P))

-----------------------------------------------------------------------------
(* DashboardComponent.processData *)

\* driverStats -> winRateData: every driver, Math.round(wins / total * 100),
\* sorted by value descending, first 6
winRateData(data) ==
    LET entry(driver) ==
            LET races == RacesOf(data, driver)
                wins == Count(races, LAMBDA r : r.WinLoss = "Win")
                total == Len(races)
            IN [name |-> DisplayName(driver),
                value |-> IF total > 0
                          THEN MathRound(Mul(Div(Num(wins), Num(total)), Num(100)))
                          ELSE Num(0)]
    IN Slice(SortBy(Map(DriversOf(data), entry),
                    LAMBDA a, b : Gt(a.value, b.value)), 6)

\* reactionsByDriver -> avgReactions: drivers with a valid reaction, in order
\* of their first valid reaction; mean rounded to 3 decimals; ascending; first 6
avgReactions(data) ==
    LET valid == SelectSeq(data, LAMBDA r : Present(r.Reaction))
        entry(driver) ==
            LET reactions == Map(RacesOf(valid, driver), LAMBDA r : r.Reaction)
                avg == Div(SumSeq(reactions), Num(Len(reactions)))
            IN [driver |-> DisplayNameShort(driver), value |-> ToFixed(avg, 3)]
    IN Slice(SortBy(Map(DriversOf(valid), entry),
                    LAMBDA a, b : Lt(a.value, b.value)), 6)

\* datePerformanceMap -> performanceByDate: one point per date, in order of date
performanceByDate(data) ==
    LET dates == Uniq(Map(data, LAMBDA r : r.Date))
        point(date) ==
            LET recs == SelectSeq(data, LAMBDA r : r.Date = date)
                et == Map(SelectSeq(recs, LAMBDA r : Present(r.EighthET)),
                          LAMBDA r : r.EighthET)
                mph == Map(SelectSeq(recs, LAMBDA r : Present(r.EighthMPH)),
                           LAMBDA r : r.EighthMPH)
                avgEt == IF Len(et) > 0 THEN Div(SumSeq(et), Num(Len(et))) ELSE Num(0)
                avgMph == IF Len(mph) > 0 THEN Div(SumSeq(mph), Num(Len(mph))) ELSE Num(0)
            IN [date |-> date, et |-> ToFixed(avgEt, 3), mph |-> ToFixed(avgMph, 2),
                count |-> Len(recs)]
    IN SortBy(Map(dates, point), LAMBDA a, b : GetTime(a.date) < GetTime(b.date))

\* speedsByDriver -> avgSpeeds: mean MPH rounded to 2 decimals; descending; first 6
avgSpeeds(data) ==
    LET valid == SelectSeq(data, LAMBDA r : Present(r.EighthMPH))
        entry(driver) ==
            LET speeds == Map(RacesOf(valid, driver), LAMBDA r : r.EighthMPH)
                avg == Div(SumSeq(speeds), Num(Len(speeds)))
            IN [driver |-> DisplayNameShort(driver), speed |-> ToFixed(avg, 2)]
    IN Slice(SortBy(Map(DriversOf(valid), entry),
                    LAMBDA a, b : Gt(a.speed, b.speed)), 6)

\* the overview cards computed in render:
\* (raceData.reduce((sum, record) => sum + (record[f] || 0), 0) / raceData.length)
OrZero(v) == IF Truthy(v) THEN v ELSE Num(0)
\*    .toFixed(2)
averageMPHCard(data) ==
    ToFixed(Div(SumSeq(Map(data, LAMBDA r : OrZero(r.EighthMPH))), Num(Len(data))), 2)
averageETCard(data) ==
    ToFixed(Div(SumSeq(Map(data, LAMBDA r : OrZero(r.EighthET))), Num(Len(data))), 2)

-----------------------------------------------------------------------------
(* StatisticsComponent.processStatistics *)

LeaderboardEntry(race, value) ==
    [driver |-> race.Driver, carNo |-> race.CarNo, value |-> value,
     date |-> race.Date, opponent |-> race.Opponent]

\* a leaderboard cut after eleven entries
etLeadersKeepsEleven(data) ==
    Map(Slice(SortBy(SelectSeq(data, LAMBDA r : Present(r.EighthET)),
                     LAMBDA a, b : Lt(a.EighthET, b.EighthET)), 11),
        LAMBDA r : LeaderboardEntry(r, r.EighthET))

\* Best ET (lowest time): filter, sort ascending, slice(0, 10), map
etLeaders(data) ==
    Map(Slice(SortBy(SelectSeq(data, LAMBDA r : Present(r.EighthET)),
                     LAMBDA a, b : Lt(a.EighthET, b.EighthET)), 10),
        LAMBDA r : LeaderboardEntry(r, r.EighthET))

\* Top Speed (highest MPH): sort descending
speedLeaders(data) ==
    Map(Slice(SortBy(SelectSeq(data, LAMBDA r : Present(r.EighthMPH)),
                     LAMBDA a, b : Gt(a.EighthMPH, b.EighthMPH)), 10),
        LAMBDA r : LeaderboardEntry(r, r.EighthMPH))

\* Best Reaction Time: race.Reaction && race.Reaction > 0.001
reactionLeaders(data) ==
    Map(Slice(SortBy(SelectSeq(data, LAMBDA r : Truthy(r.Reaction)
                                                /\ Gt(r.Reaction, Rat(1, 1000))),
                     LAMBDA a, b : Lt(a.Reaction, b.Reaction)), 10),
        LAMBDA r : LeaderboardEntry(r, r.Reaction))

\* Best 60ft Time (lowest)
sixtyFootLeaders(data) ==
    Map(Slice(SortBy(SelectSeq(data, LAMBDA r : Present(r.Sixty)),
                     LAMBDA a, b : Lt(a.Sixty, b.Sixty)), 10),
        LAMBDA r : LeaderboardEntry(r, r.Sixty))

\* Most Wins: winsByDriver holds the drivers with a win, in order of first win,
\* carNo from the first winning record
winsLeaderboard(data) ==
    LET won == SelectSeq(data, LAMBDA r : r.WinLoss = "Win")
        entry(driver) ==
            LET races == RacesOf(won, driver)
            IN [driver |-> driver, carNo |-> races[1].CarNo, value |-> Len(races)]
    IN Slice(SortBy(Map(ObjectKeyOrder(DriversOf(won)), entry),
                    LAMBDA a, b : a.value > b.value), 10)

\* a threshold of two races
meetsMinimumOfTwo(st) == st.races >= 2

\* .filter(stats => stats.races >= 3) // Minimum race threshold
meetsMinimumRaces(st) == st.races >= 3

\* Best Win Rate (minimum 3 races): stats.races >= 3, value wins / races * 100,
\* sorted descending, slice(0, 10)
winRateLeaderboard(data) ==
    LET stats(driver) ==
            LET races == RacesOf(data, driver)
            IN [driver |-> driver, carNo |-> races[1].CarNo,
                wins |-> Count(races, LAMBDA r : r.WinLoss = "Win"),
                races |-> Len(races)]
        entry(st) ==
            [driver |-> st.driver, carNo |-> st.carNo,
             value |-> Mul(Div(Num(st.wins), Num(st.races)), Num(100)),
             races |-> st.races]
        eligible == SelectSeq(Map(ObjectKeyOrder(DriversOf(data)), stats),
                              meetsMinimumRaces)
    IN Slice(SortBy(Map(eligible, entry), LAMBDA a, b : Gt(a.value, b.value)), 10)

\* raceGroups: the records grouped by `${race.Date}-${race.RaceNumber}`
raceGroups(data) ==
    LET keys == Uniq(Map(data, LAMBDA r : <<r.Date, r.RaceNumber>>))
    IN Map(keys, LAMBDA key : SelectSeq(data, LAMBDA r : <<r.Date, r.RaceNumber>> = key))

\* a group with a 'Win' and a 'Loss', whatever its size
ComparedWhateverSize(group) ==
    /\ \E i \in 1..Len(group) : group[i].WinLoss = "Win"
    /\ \E i \in 1..Len(group) : group[i].WinLoss = "Loss"

\* a group that is compared: exactly 2 racers, a 'Win' and a 'Loss' among them
Compared(group) ==
    /\ Len(group) = 2
    /\ \E i \in 1..2 : group[i].WinLoss = "Win"
    /\ \E i \in 1..2 : group[i].WinLoss = "Loss"

\* group.find(r => r.WinLoss === w): the first such record
Find(group, w) == group[CHOOSE i \in 1..Len(group) :
                            /\ group[i].WinLoss = w
                            /\ \A j \in 1..(i - 1) : group[j].WinLoss # w]

\* winAnalysis after the forEach over the groups
winAnalysis(data) ==
    LET pairs == SelectSeq(raceGroups(data), Compared)
        winner(g) == Find(g, "Win")
        loser(g) == Find(g, "Loss")
    IN [betterReaction |-> Count(pairs, LAMBDA g :
            Truthy(winner(g).Reaction) /\ Truthy(loser(g).Reaction)
            /\ Lt(winner(g).Reaction, loser(g).Reaction)),
        better60ft |-> Count(pairs, LAMBDA g :
            Truthy(winner(g).Sixty) /\ Truthy(loser(g).Sixty)
            /\ Lt(winner(g).Sixty, loser(g).Sixty)),
        better330 |-> Count(pairs, LAMBDA g :
            Truthy(winner(g).ThreeThirty) /\ Truthy(loser(g).ThreeThirty)
            /\ Lt(winner(g).ThreeThirty, loser(g).ThreeThirty)),
        betterMPH |-> Count(pairs, LAMBDA g :
            Truthy(winner(g).EighthMPH) /\ Truthy(loser(g).EighthMPH)
            /\ Gt(winner(g).EighthMPH, loser(g).EighthMPH)),
        totalComparisons |-> Len(pairs)]

\* (tally / winAnalysis.totalComparisons) * 100
Percentage(tally, total) == Mul(Div(Num(tally), Num(total)), Num(100))

winFactorsData(data) ==
    LET wa == winAnalysis(data)
    IN << [name |-> "Better Reaction",
           value |-> Percentage(wa.betterReaction, wa.totalComparisons)],
          [name |-> "Better 60ft",
           value |-> Percentage(wa.better60ft, wa.totalComparisons)],
          [name |-> "Better 330ft",
           value |-> Percentage(wa.better330, wa.totalComparisons)],
          [name |-> "Higher MPH",
           value |-> Percentage(wa.betterMPH, wa.totalComparisons)] >>

\* Correlation data: one point per record with both fields > 0;
\* z: race['1/8MPH'] || 100
CorrelationPoint(x, race) ==
    [x |-> x, y |-> race.EighthET,
     z |-> IF Truthy(race.EighthMPH) THEN race.EighthMPH ELSE Num(100),
     driver |-> race.Driver]

reactionETData(data) ==
    Map(SelectSeq(data, LAMBDA r : Present(r.Reaction) /\ Present(r.EighthET)),
        LAMBDA r : CorrelationPoint(r.Reaction, r))

sixtyETData(data) ==
    Map(SelectSeq(data, LAMBDA r : Present(r.Sixty) /\ Present(r.EighthET)),
        LAMBDA r : CorrelationPoint(r.Sixty, r))

\* Math.sqrt of a finite number >= 0, kept exact: the value whose square is
\* n/d.  Two such values compare as their squares do.
MathSqrt(a) == [k |-> "sqrt", n |-> a.n, d |-> a.d]
LtSqrt(a, b) == a.n * b.d < b.n * a.d

\* Math.pow(val - mean, 2)
Square(a) == Mul(a, a)

\* a variance that divides by N - 1
sampleVariance(etTimes) ==
    LET mean == Div(SumSeq(etTimes), Num(Len(etTimes)))
    IN Div(SumSeq(Map(etTimes, LAMBDA val : Square(Sub(val, mean)))),
           Num(Len(etTimes) - 1))

\* etTimes.reduce((sum, val) => sum + Math.pow(val - mean, 2), 0) / etTimes.length
variance(etTimes) ==
    LET mean == Div(SumSeq(etTimes), Num(Len(etTimes)))
    IN Div(SumSeq(Map(etTimes, LAMBDA val : Square(Sub(val, mean)))),
           Num(Len(etTimes)))

\* Consistency Rankings: drivers in order of their first valid ET, at least 3
\* ET times, standard deviation ascending, slice(0, 6)
consistencyLeaderboard(data) ==
    LET valid == SelectSeq(data, LAMBDA r : Present(r.EighthET))
        stats(driver) ==
            LET races == RacesOf(valid, driver)
            IN [driver |-> driver, carNo |-> races[1].CarNo,
                etTimes |-> Map(races, LAMBDA r : r.EighthET)]
        entry(st) ==
            [driver |-> st.driver, carNo |-> st.carNo,
             value |-> MathSqrt(variance(st.etTimes)), races |-> Len(st.etTimes)]
        eligible == SelectSeq(Map(ObjectKeyOrder(DriversOf(valid)), stats),
                              LAMBDA st : Len(st.etTimes) >= 3)
    IN Slice(SortBy(Map(eligible, entry), LAMBDA a, b : LtSqrt(a.value, b.value)), 6)

\* a threshold of three runs
hasThreeRuns(runs) == Len(runs) >= 3

\* .filter(driver => driver.runs.length >= 4)
hasMinimumRuns(runs) == Len(runs) >= 4

\* sortedRuns.slice(-2)
LastTwo(s) == SubSeq(s, IF Len(s) > 2 THEN Len(s) - 1 ELSE 1, Len(s))

\* the runs of one driver -> { value: lateAvg - earlyAvg, improvementPct };
\* sign is 1 for MPH ((late - early) / early) and -1 for ET ((early - late) / early)
Improvement(driver, carNo, runs, sign) ==
    LET sortedRuns == SortBy(runs, LAMBDA a, b : GetTime(a.date) < GetTime(b.date))
        firstRuns == Slice(sortedRuns, 2)
        lastRuns == LastTwo(sortedRuns)
        earlyAvg == Div(SumSeq(Map(firstRuns, LAMBDA run : run.v)), Num(Len(firstRuns)))
        lateAvg == Div(SumSeq(Map(lastRuns, LAMBDA run : run.v)), Num(Len(lastRuns)))
        diff == IF sign = 1 THEN Sub(lateAvg, earlyAvg) ELSE Sub(earlyAvg, lateAvg)
    IN [driver |-> DisplayName(driver), carNo |-> carNo,
        value |-> Sub(lateAvg, earlyAvg),
        improvementPct |-> Mul(Div(diff, earlyAvg), Num(100))]

\* driverProgress -> improvementData: ET runs, at least 4, delta ascending,
\* slice(0, 10)
improvementData(data) ==
    LET valid == SelectSeq(data, LAMBDA r : Present(r.EighthET))
        progress(driver) ==
            LET races == RacesOf(valid, driver)
            IN [driver |-> driver, carNo |-> races[1].CarNo,
                runs |-> Map(races, LAMBDA r : [date |-> r.Date, v |-> r.EighthET])]
        eligible == SelectSeq(Map(ObjectKeyOrder(DriversOf(valid)), progress),
                              LAMBDA p : hasMinimumRuns(p.runs))
    IN Slice(SortBy(Map(eligible, LAMBDA p : Improvement(p.driver, p.carNo, p.runs, -1)),
                    LAMBDA a, b : Lt(a.value, b.value)), 10)

\* driverMphProgress -> mphImprovementData: MPH runs, delta descending
mphImprovementData(data) ==
    LET valid == SelectSeq(data, LAMBDA r : Present(r.EighthMPH))
        progress(driver) ==
            LET races == RacesOf(valid, driver)
            IN [driver |-> driver, carNo |-> races[1].CarNo,
                runs |-> Map(races, LAMBDA r : [date |-> r.Date, v |-> r.EighthMPH])]
        eligible == SelectSeq(Map(ObjectKeyOrder(DriversOf(valid)), progress),
                              LAMBDA p : hasMinimumRuns(p.runs))
    IN Slice(SortBy(Map(eligible, LAMBDA p : Improvement(p.driver, p.carNo, p.runs, 1)),
                    LAMBDA a, b : Gt(a.value, b.value)), 10)

\* driver.driver.split(' ') in the map over the drivers with at least 4 runs
\* throws a TypeError when a Driver is not a string
improvementThrows(data, field) ==
    \E i \in DOMAIN data :
        /\ ~IsString(data[i].Driver)
        /\ hasMinimumRuns(SelectSeq(RacesOf(data, data[i].Driver),
                                    LAMBDA r : Present(IF field = "1/8ET" THEN r.EighthET
                                                                          ELSE r.EighthMPH)))

\* racesByDate -> raceCountData: the number of records per date, by date
raceCountData(data) ==
    LET dates == Uniq(Map(data, LAMBDA r : r.Date))
    IN SortBy(Map(dates, LAMBDA date :
                      [date |-> date,
                       count |-> Len(SelectSeq(data, LAMBDA r : r.Date = date))]),
              LAMBDA a, b : GetTime(a.date) < GetTime(b.date))

\* Math.min(10, race.RaceNumber || fallback)
CappedRaceNumber(race, fallback) ==
    LET n == IF Truthy(race.RaceNumber) THEN race.RaceNumber ELSE Num(fallback)
    IN IF Lt(Num(10), n) THEN Num(10) ELSE n

\* performanceByRaceNumber -> timePerformanceData: one entry per capped race
\* number that has a valid ET; count is the number of valid ETs, and all three
\* totals are divided by it; ascending race number
timePerformanceData(data) ==
    LET numbers == Uniq(Map(data, LAMBDA r : CappedRaceNumber(r, 0)))
        item(capped) ==
            LET recs == SelectSeq(data, LAMBDA r : CappedRaceNumber(r, 0) = capped)
                pick(f(_)) == Map(SelectSeq(recs, LAMBDA r : Present(f(r))), f)
            IN [raceNumber |-> capped,
                totalET |-> SumSeq(pick(LAMBDA r : r.EighthET)),
                totalReaction |-> SumSeq(pick(LAMBDA r : r.Reaction)),
                totalMPH |-> SumSeq(pick(LAMBDA r : r.EighthMPH)),
                count |-> Len(pick(LAMBDA r : r.EighthET))]
        kept == SelectSeq(Map(numbers, item), LAMBDA it : it.count > 0)
    IN SortBy(Map(kept, LAMBDA it :
                      [raceNumber |-> it.raceNumber,
                       avgET |-> Div(it.totalET, Num(it.count)),
                       avgReaction |-> Div(it.totalReaction, Num(it.count)),
                       avgMPH |-> Div(it.totalMPH, Num(it.count)),
                       count |-> it.count]),
              LAMBDA a, b : Lt(a.raceNumber, b.raceNumber))

\* the bins of the heat map: the keys 1..10
IsBin(hour) == hour.k = "num" /\ hour.d = 1 /\ hour.n \in 1..10

\* bins[hour].push(...) throws a TypeError when bins[hour] is undefined: a
\* record with a valid ET whose capped race number is not one of 1..10
heatMapThrows(data) ==
    \E i \in DOMAIN data :
        Present(data[i].EighthET) /\ ~IsBin(CappedRaceNumber(data[i], 1))

\* the dates in the order of Array.prototype.sort() on strings
DateStringOrder(dates) == SortBy(dates, LAMBDA a, b : GetTime(a) < GetTime(b))

RECURSIVE Concat(_)
Concat(ss) == IF ss = <<>> THEN <<>> ELSE Head(ss) \o Concat(Tail(ss))

\* heatMapData: per date (sorted) and per bin 1..10 (ascending) with at least
\* one valid ET, the mean of the bin's ETs
heatMapData(data) ==
    LET uniqueDates == DateStringOrder(Uniq(Map(data, LAMBDA r : r.Date)))
        times(date, hour) ==
            Map(SelectSeq(data, LAMBDA r : /\ r.Date = date
                                           /\ Present(r.EighthET)
                                           /\ CappedRaceNumber(r, 1) = Num(hour)),
                LAMBDA r : r.EighthET)
        cell(date, hour) ==
            IF Len(times(date, hour)) > 0
            THEN << [day |-> date, hour |-> hour,
                     value |-> Div(SumSeq(times(date, hour)), Num(Len(times(date, hour))))] >>
            ELSE << >>
        day(date) == Concat([hour \in 1..10 |-> cell(date, hour)])
    IN Concat(Map(uniqueDates, day))

-----------------------------------------------------------------------------
(* DriversComponent: the rollup effect and the radar chart *)

\* const calcAverage = (values) => values.length > 0 ? sum / values.length : 0
calcAverage(values) ==
    IF Len(values) > 0 THEN Div(SumSeq(values), Num(Len(values))) ELSE Num(0)

\* driverRaces.filter(race => race[f] && race[f] > 0).map(race => race[f])
reactionTimesOf(races) ==
    Map(SelectSeq(races, LAMBDA r : Present(r.Reaction)), LAMBDA r : r.Reaction)
sixtyFootTimes(races) ==
    Map(SelectSeq(races, LAMBDA r : Present(r.Sixty)), LAMBDA r : r.Sixty)
threeThirtyFootTimes(races) ==
    Map(SelectSeq(races, LAMBDA r : Present(r.ThreeThirty)), LAMBDA r : r.ThreeThirty)
eighthETTimes(races) ==
    Map(SelectSeq(races, LAMBDA r : Present(r.EighthET)), LAMBDA r : r.EighthET)
eighthMPHSpeeds(races) ==
    Map(SelectSeq(races, LAMBDA r : Present(r.EighthMPH)), LAMBDA r : r.EighthMPH)

bestMin(values) == IF Len(values) > 0 THEN MinSeq(values) ELSE Num(0)
bestMax(values) == IF Len(values) > 0 THEN MaxSeq(values) ELSE Num(0)

\* a win rate over the decided races only
rollupWinRateOverDecided(driverRaces) ==
    LET wins == Count(driverRaces, LAMBDA r : r.WinLoss = "Win")
        losses == Count(driverRaces, LAMBDA r : r.WinLoss = "Loss")
    IN Mul(Div(Num(wins), Num(wins + losses)), Num(100))

\* winRate: (wins / driverRaces.length) * 100
rollupWinRate(driverRaces) ==
    LET wins == Count(driverRaces, LAMBDA r : r.WinLoss = "Win")
    IN Mul(Div(Num(wins), Num(Len(driverRaces))), Num(100))

\* the object passed to setDriverStats
DriverStatsOf(driver, driverRaces) ==
    LET wins == Count(driverRaces, LAMBDA r : r.WinLoss = "Win")
        losses == Count(driverRaces, LAMBDA r : r.WinLoss = "Loss")
    IN [name |-> driver,
        carNumber |-> driverRaces[1].CarNo,
        races |-> Len(driverRaces),
        wins |-> wins,
        losses |-> losses,
        winRate |-> rollupWinRate(driverRaces),
        avgReaction |-> calcAverage(reactionTimesOf(driverRaces)),
        avg60ft |-> calcAverage(sixtyFootTimes(driverRaces)),
        avg330ft |-> calcAverage(threeThirtyFootTimes(driverRaces)),
        avgEighthET |-> calcAverage(eighthETTimes(driverRaces)),
        avgEighthMPH |-> calcAverage(eighthMPHSpeeds(driverRaces)),
        bestEighthET |-> bestMin(eighthETTimes(driverRaces)),
        bestThreeThirty |-> bestMin(threeThirtyFootTimes(driverRaces)),
        bestEighthMPH |-> bestMax(eighthMPHSpeeds(driverRaces)),
        bestSixtyFoot |-> bestMin(sixtyFootTimes(driverRaces)),
        bestReaction |-> bestMin(reactionTimesOf(driverRaces)),
        raceHistory |-> driverRaces]

\* a race history table sorted by date ascending
raceHistoryOldestFirst(history) ==
    SortBy(history, LAMBDA a, b : GetTime(a.Date) < GetTime(b.Date))

\* the race history table: driverStats.raceHistory.sort(date descending),
\* an in-place sort of the array the effect stored in driverStats
raceHistoryRows(history) ==
    SortBy(history, LAMBDA a, b : GetTime(b.Date) < GetTime(a.Date))

\* racesByDate -> performanceData: best of day per date, sorted by date
performanceData(driverRaces) ==
    LET dates == Uniq(Map(driverRaces, LAMBDA r : r.Date))
        point(date) ==
            LET races == SelectSeq(driverRaces, LAMBDA r : r.Date = date)
                ets == eighthETTimes(races)
                mphs == eighthMPHSpeeds(races)
                rts == reactionTimesOf(races)
            IN [date |-> date,
                et |-> IF Len(ets) > 0 THEN MinSeq(ets) ELSE JsNull,
                mph |-> IF Len(mphs) > 0 THEN MaxSeq(mphs) ELSE JsNull,
                reaction |-> IF Len(rts) > 0 THEN MinSeq(rts) ELSE JsNull,
                races |-> Len(races),
                wins |-> Count(races, LAMBDA r : r.WinLoss = "Win")]
    IN SortBy(Map(dates, point), LAMBDA a, b : GetTime(a.date) < GetTime(b.date))

\* opponentData -> opponentDataArray: one row per opponent, sorted by races descending
opponentDataArray(driverRaces) ==
    LET opponents == ObjectKeyOrder(Uniq(Map(driverRaces, LAMBDA r : r.Opponent)))
        row(opp) ==
            LET races == SelectSeq(driverRaces, LAMBDA r : r.Opponent = opp)
                wins == Count(races, LAMBDA r : r.WinLoss = "Win")
            IN [opponent |-> opp, races |-> Len(races), wins |-> wins,
                losses |-> Len(races) - wins,
                winRate |-> Mul(Div(Num(wins), Num(Len(races))), Num(100))]
    IN SortBy(Map(opponents, row), LAMBDA a, b : a.races > b.races)

\* findMinMax(metric, accessor): min and max of the per-driver means over the
\* drivers that have a value; accessor is modelled by the filtered lists above
MinMaxOfMeans(means) ==
    [min |-> IF means = <<>> THEN Inf(1) ELSE MinSeq(means),
     max |-> IF means = <<>> THEN Inf(-1) ELSE MaxSeq(means)]

MeansOf(lists) ==
    Map(SelectSeq(lists, LAMBDA v : Len(v) > 0),
        LAMBDA v : Div(SumSeq(v), Num(Len(v))))

findMinMaxReaction(data) ==
    MinMaxOfMeans(MeansOf(Map(DriversOf(data),
                              LAMBDA dr : reactionTimesOf(RacesOf(data, dr)))))
findMinMaxSixtyFoot(data) ==
    MinMaxOfMeans(MeansOf(Map(DriversOf(data),
                              LAMBDA dr : sixtyFootTimes(RacesOf(data, dr)))))
findMinMaxThreeThirty(data) ==
    MinMaxOfMeans(MeansOf(Map(DriversOf(data),
                              LAMBDA dr : threeThirtyFootTimes(RacesOf(data, dr)))))
findMinMaxEighthET(data) ==
    MinMaxOfMeans(MeansOf(Map(DriversOf(data),
                              LAMBDA dr : eighthETTimes(RacesOf(data, dr)))))
findMinMaxEighthMPH(data) ==
    MinMaxOfMeans(MeansOf(Map(DriversOf(data),
                              LAMBDA dr : eighthMPHSpeeds(RacesOf(data, dr)))))

\* 100 - ((value - min) / (max - min) * 100)
normalizeInverted(value, min, max) ==
    Sub(Num(100), Mul(Div(Sub(value, min), Sub(max, min)), Num(100)))

\* ((value - min) / (max - min) * 100)
normalizeDirectly(value, min, max) ==
    Mul(Div(Sub(value, min), Sub(max, min)), Num(100))

\* PerformanceRadarChart: radarData computed in render from driverStats and raceData
radarData(ds, data) ==
    LET rr == findMinMaxReaction(data)
        sr == findMinMaxSixtyFoot(data)
        tr == findMinMaxThreeThirty(data)
        er == findMinMaxEighthET(data)
        mr == findMinMaxEighthMPH(data)
    IN << [metric |-> "Reaction", value |-> normalizeInverted(ds.avgReaction, rr.min, rr.max)],
          [metric |-> "60ft", value |-> normalizeInverted(ds.avg60ft, sr.min, sr.max)],
          [metric |-> "330ft", value |-> normalizeInverted(ds.avg330ft, tr.min, tr.max)],
          [metric |-> "1/8 ET", value |-> normalizeInverted(ds.avgEighthET, er.min, er.max)],
          [metric |-> "1/8 MPH", value |-> normalizeDirectly(ds.avgEighthMPH, mr.min, mr.max)],
          [metric |-> "Win Rate", value |-> ds.winRate] >>

-----------------------------------------------------------------------------
(* The datasets the loader can deliver *)

MaxRows == 3

Al == "Al Ray"
Bo == "Bo Hart"
Cy == "Cy"
Di == "Di Lane"
Ed == "Ed Moss"
Flo == "Flo Nash"
Gus == "Gus Orr"

D1 == "2024-03-14"
D2 == "2024-03-21"
D3 == "2024-03-28"

\* a complete run: every metric recorded
Full(dr, car, date, rn, rt, et, mph, opp, oppCar, wl) ==
    Row(dr, car, date, Num(rn), rt, Num(et - 6), Num(et - 4), Num(et), Num(mph),
        opp, oppCar, wl)

\* rows that are appended freely: complete runs, runs with metrics that are
\* absent (null), zero or negative, a bye, a run without a result, two
\* head-to-head pairs
Rows ==
    { Full(Al, "11", D1, 1, Rat(1, 20), 7, 90, Bo, "22", "Win"),
      Full(Bo, "22", D1, 1, Rat(2, 25), 8, 80, Al, "11", "Loss"),
      Row(Al, "11", D2, Num(1), Rat(-1, 20), Num(1), Num(3), Num(0), Num(0),
          Bo, "22", "Loss"),
      Row(Bo, "22", D2, Num(1), JsNull, JsNull, Num(-4), Num(8), JsNull,
          Al, "11", "Win"),
      Row(Cy, "33", D1, Num(2), Rat(2, 25), Num(2), Num(0), Num(7), Num(-80),
          "Bye", "", "Win"),
      Full(Bo, "22", D2, 2, Rat(1, 20), 7, 90, Cy, "33", "Win"),
      Row(Cy, "33", D2, Num(2), Rat(1, 2000), Num(0), JsNull, Num(9), Num(70),
          Bo, "22", "Loss"),
      Row(Al, "11", D1, Num(2), Num(0), Num(2), Num(4), Num(-8), Num(80),
          "Bye", "", "") }

\* a season file of ten complete runs: Al and Di race three times, Bo and Ed
\* twice; elapsed times and speeds repeat, so every leaderboard has ties
TenRuns ==
    << Full(Al, "11", D1, 1, Rat(1, 20), 7, 90, Di, "44", "Win"),
       Full(Di, "44", D1, 1, Rat(2, 25), 8, 80, Al, "11", "Loss"),
       Full(Bo, "22", D1, 2, Rat(1, 20), 7, 90, Ed, "55", "Win"),
       Full(Ed, "55", D1, 2, Rat(1, 10), 9, 70, Bo, "22", "Loss"),
       Full(Al, "11", D2, 1, Rat(2, 25), 8, 80, Di, "44", "Loss"),
       Full(Di, "44", D2, 1, Rat(1, 20), 7, 90, Al, "11", "Win"),
       Full(Bo, "22", D2, 2, Rat(1, 10), 9, 70, Ed, "55", "Loss"),
       Full(Ed, "55", D2, 2, Rat(2, 25), 8, 80, Bo, "22", "Win"),
       Full(Al, "11", D3, 1, Rat(1, 20), 7, 90, Di, "44", "Win"),
       Full(Di, "44", D3, 1, Rat(2, 25), 8, 80, Al, "11", "Loss") >>

\* a season file of seven drivers with three complete runs each, one per
\* date; every driver has a win, and the spreads of the elapsed times differ;
\* the last date has the race numbers 0 and 10, 11, 12
SevenDrivers ==
    << Full(Al, "11", D1, 1, Rat(1, 20), 7, 90, Bo, "22", "Win"),
       Full(Bo, "22", D1, 2, Rat(1, 20), 7, 90, Cy, "33", "Win"),
       Full(Cy, "33", D1, 3, Rat(1, 20), 7, 90, Di, "44", "Win"),
       Full(Di, "44", D1, 4, Rat(2, 25), 8, 80, Ed, "55", "Loss"),
       Full(Ed, "55", D1, 5, Rat(1, 10), 9, 70, Flo, "66", "Win"),
       Full(Flo, "66", D1, 6, Rat(1, 20), 7, 90, Gus, "77", "Win"),
       Full(Gus, "77", D1, 7, Rat(1, 20), 7, 90, Al, "11", "Win"),
       Full(Al, "11", D2, 1, Rat(1, 20), 7, 90, Bo, "22", "Win"),
       Full(Bo, "22", D2, 2, Rat(2, 25), 8, 80, Cy, "33", "Loss"),
       Full(Cy, "33", D2, 3, Rat(1, 10), 9, 70, Di, "44", "Win"),
       Full(Di, "44", D2, 4, Rat(2, 25), 8, 80, Ed, "55", "Win"),
       Full(Ed, "55", D2, 5, Rat(1, 10), 9, 70, Flo, "66", "Loss"),
       Full(Flo, "66", D2, 6, Rat(2, 25), 8, 80, Gus, "77", "Win"),
       Full(Gus, "77", D2, 7, Rat(1, 20), 7, 90, Al, "11", "Loss"),
       Full(Al, "11", D3, 0, Rat(1, 20), 7, 90, Bo, "22", "Win"),
       Full(Bo, "22", D3, 2, Rat(1, 20), 7, 90, Cy, "33", "Win"),
       Full(Cy, "33", D3, 3, Rat(1, 20), 7, 90, Di, "44", "Loss"),
       Full(Di, "44", D3, 4, Rat(1, 10), 9, 70, Ed, "55", "Win"),
       Full(Ed, "55", D3, 10, Rat(1, 10), 9, 70, Flo, "66", "Loss"),
       Full(Flo, "66", D3, 11, Rat(1, 10), 9, 70, Gus, "77", "Win"),
       Full(Gus, "77", D3, 12, Rat(1, 8), 10, 60, Al, "11", "Win") >>

\* a file in which one driver's name reads 42, and a race number is absent
NumberedDriver ==
    << Full(Number42, "42", D1, 1, Rat(1, 20), 7, 90, "Bye", "", "Win"),
       Row(Al, "11", D1, JsNull, Rat(2, 25), Num(2), Num(4), Num(8), Num(80),
           "Bye", "", "Win") >>

\* a file whose only run has a negative race number
NegativeRaceNumber ==
    << Full(Al, "11", D1, -1, Rat(1, 20), 7, 90, "Bye", "", "Win") >>

Fixtures == { <<>>, TenRuns, SevenDrivers, NumberedDriver, NegativeRaceNumber }

RECURSIVE SeqsUpTo(_, _)
SeqsUpTo(S, n) ==
    IF n = 0 THEN { <<>> }
    ELSE LET shorter == SeqsUpTo(S, n - 1)
         IN shorter \cup { Append(s, x) : s \in { t \in shorter : Len(t) = n - 1 }, x \in S }

\* a file is a fixture followed by at most MaxRows further rows
Datasets == { f \o s : f \in Fixtures, s \in SeqsUpTo(Rows, MaxRows) }

-----------------------------------------------------------------------------
(* The three views and the page shell *)

Null == "null"

Components == {"dashboard", "statistics", "drivers"}

\* position in the code-unit order used by Array.prototype.sort() on names
NameRank(name) ==
    CASE name = Number42 -> 0
      [] name = "Al Ray" -> 1
      [] name = "Bo Hart" -> 2
      [] name = "Cy" -> 3
      [] name = "Di Lane" -> 4
      [] name = "Ed Moss" -> 5
      [] name = "Flo Nash" -> 6
      [] name = "Gus Orr" -> 7

\* Array.from(new Set(parsedData.map(record => record.Driver))).sort()
uniqueDrivers(data) == SortBy(DriversOf(data), LAMBDA a, b : NameRank(a) < NameRank(b))

\* the state of a freshly mounted view: the useState initial values
Mounted(c) ==
    /\ activeComponent' = c
    /\ pc' = "fetch"
    /\ raceData' = <<>>
    /\ loading' = TRUE
    /\ error' = Null
    /\ driverWinRates' = <<>> /\ reactionTimes' = <<>>
    /\ performanceByRace' = <<>> /\ avgSpeedByDriver' = <<>>
    /\ bestET' = <<>> /\ topSpeed' = <<>> /\ bestReaction' = <<>> /\ best60ft' = <<>>
    /\ mostWins' = <<>> /\ bestWinRate' = <<>> /\ winFactors' = <<>>
    /\ reactionVsET' = <<>> /\ sixtyVsET' = <<>> /\ consistencyRanking' = <<>>
    /\ improvementRanking' = <<>> /\ mphImprovementRanking' = <<>>
    /\ raceCountByDate' = <<>> /\ performanceByTime' = <<>> /\ heatMap' = <<>>
    /\ drivers' = <<>> /\ selectedDriver' = "" /\ driverStats' = <<>>
    /\ performanceTrend' = <<>> /\ opponentStats' = <<>>
    /\ effectPending' = (c = "drivers")   \* both effects run after the mount
    /\ UNCHANGED tournamentVars

Init ==
    /\ activeComponent = "dashboard"
    /\ pc = "fetch"
    /\ raceData = <<>>
    /\ loading = TRUE
    /\ error = Null
    /\ driverWinRates = <<>> /\ reactionTimes = <<>>
    /\ performanceByRace = <<>> /\ avgSpeedByDriver = <<>>
    /\ bestET = <<>> /\ topSpeed = <<>> /\ bestReaction = <<>> /\ best60ft = <<>>
    /\ mostWins = <<>> /\ bestWinRate = <<>> /\ winFactors = <<>>
    /\ reactionVsET = <<>> /\ sixtyVsET = <<>> /\ consistencyRanking = <<>>
    /\ improvementRanking = <<>> /\ mphImprovementRanking = <<>>
    /\ raceCountByDate = <<>> /\ performanceByTime = <<>> /\ heatMap = <<>>
    /\ drivers = <<>> /\ selectedDriver = "" /\ driverStats = <<>>
    /\ performanceTrend = <<>> /\ opponentStats = <<>>
    /\ effectPending = FALSE
    /\ eventDate = "" /\ tournamentDrivers = <<>> /\ currentRound = <<>>
    /\ nextRound = <<>> /\ loopI = 0 /\ roundNumber = 1 /\ raceNumber = 1
    /\ results = <<>> /\ tpc = "idle"

\* Home: a navigation button mounts another view (the old one is unmounted)
SetActiveComponent ==
    \E c \in Components : c # activeComponent /\ Mounted(c)

\* await fetch(...) resolves
FetchResolves ==
    /\ pc = "fetch"
    /\ pc' = "text"
    /\ UNCHANGED <<tournamentVars, activeComponent, raceData, loading, error, dashVars, statsVars, drvVars>>

\* await fetch(...) or await response.text() rejects: the catch block
FetchRejects ==
    /\ pc \in {"fetch", "text"}
    /\ error' = "Failed to fetch data"
    /\ loading' = FALSE
    /\ pc' = "fetchFailed"
    /\ UNCHANGED <<tournamentVars, activeComponent, raceData, dashVars, statsVars, drvVars>>

\* a complete callback that stores the partial rows before it looks at
\* results.errors
ParseCompleteStoresPartialRows ==
    /\ pc = "text"
    /\ \E parsedData \in Datasets : raceData' = parsedData
    /\ error' = "Error parsing CSV file"
    /\ pc' = "parseErrors"
    /\ UNCHANGED <<tournamentVars, activeComponent, loading, dashVars, statsVars, drvVars>>

\* Papa.parse calls complete with results.errors.length > 0
ParseCompleteWithErrors ==
    /\ pc = "text"
    /\ error' = "Error parsing CSV file"
    /\ pc' = "parseErrors"
    /\ UNCHANGED <<tournamentVars, activeComponent, raceData, loading, dashVars, statsVars, drvVars>>

\* Papa.parse calls the error callback
ParseError ==
    /\ pc = "text"
    /\ error' = "Error parsing CSV: message"
    /\ loading' = FALSE
    /\ pc' = "errorCallback"
    /\ UNCHANGED <<tournamentVars, activeComponent, raceData, dashVars, statsVars, drvVars>>

\* processData throws a TypeError: driver.split(' ') on a Driver that is not
\* a string, in the first map over the drivers, before any derived state is set
processDataThrows(data) == \E i \in DOMAIN data : ~IsString(data[i].Driver)

\* DashboardComponent: complete without errors.  Papa.parse of a string calls
\* complete synchronously, inside fetchData's try: an exception thrown by
\* processData is handled by its catch block, after setRaceData
DashboardComplete ==
    /\ activeComponent = "dashboard"
    /\ pc = "text"
    /\ \E parsedData \in Datasets :
        /\ raceData' = parsedData
        /\ IF processDataThrows(parsedData)
           THEN /\ UNCHANGED dashVars
                /\ error' = "Failed to fetch data"
                /\ pc' = "threw"
           ELSE /\ driverWinRates' = winRateData(parsedData)
                /\ reactionTimes' = avgReactions(parsedData)
                /\ performanceByRace' = performanceByDate(parsedData)
                /\ avgSpeedByDriver' = avgSpeeds(parsedData)
                /\ error' = error
                /\ pc' = "complete"
    /\ loading' = FALSE
    /\ UNCHANGED <<tournamentVars, activeComponent, statsVars, drvVars>>

\* StatisticsComponent: complete without errors.  processStatistics sets the
\* derived states in the order of its statements; an exception it throws is
\* handled by fetchData's catch block, and the states set before it are kept
StatisticsComplete ==
    /\ activeComponent = "statistics"
    /\ pc = "text"
    /\ \E parsedData \in Datasets :
        /\ raceData' = parsedData
        /\ bestET' = etLeaders(parsedData)
        /\ topSpeed' = speedLeaders(parsedData)
        /\ bestReaction' = reactionLeaders(parsedData)
        /\ best60ft' = sixtyFootLeaders(parsedData)
        /\ mostWins' = winsLeaderboard(parsedData)
        /\ bestWinRate' = winRateLeaderboard(parsedData)
        /\ raceCountByDate' = raceCountData(parsedData)
        /\ reactionVsET' = reactionETData(parsedData)
        /\ sixtyVsET' = sixtyETData(parsedData)
        /\ consistencyRanking' = consistencyLeaderboard(parsedData)
        /\ performanceByTime' = timePerformanceData(parsedData)
        /\ winFactors' = winFactorsData(parsedData)
        /\ IF heatMapThrows(parsedData)
           THEN /\ UNCHANGED <<heatMap, improvementRanking, mphImprovementRanking>>
                /\ error' = "Failed to fetch data"
                /\ pc' = "threw"
           ELSE IF improvementThrows(parsedData, "1/8ET")
           THEN /\ heatMap' = heatMapData(parsedData)
                /\ UNCHANGED <<improvementRanking, mphImprovementRanking>>
                /\ error' = "Failed to fetch data"
                /\ pc' = "threw"
           ELSE IF improvementThrows(parsedData, "1/8MPH")
           THEN /\ heatMap' = heatMapData(parsedData)
                /\ improvementRanking' = improvementData(parsedData)
                /\ UNCHANGED mphImprovementRanking
                /\ error' = "Failed to fetch data"
                /\ pc' = "threw"
           ELSE /\ heatMap' = heatMapData(parsedData)
                /\ improvementRanking' = improvementData(parsedData)
                /\ mphImprovementRanking' = mphImprovementData(parsedData)
                /\ error' = error
                /\ pc' = "complete"
    /\ loading' = FALSE
    /\ UNCHANGED <<tournamentVars, activeComponent, dashVars, drvVars>>

\* DriversComponent: complete without errors; raceData changes, so the
\* rollup effect is scheduled
DriversComplete ==
    /\ activeComponent = "drivers"
    /\ pc = "text"
    /\ \E parsedData \in Datasets :
        /\ raceData' = parsedData
        /\ drivers' = uniqueDrivers(parsedData)
        /\ selectedDriver' = IF Len(uniqueDrivers(parsedData)) > 0
                             THEN uniqueDrivers(parsedData)[1]
                             ELSE selectedDriver
    /\ loading' = FALSE
    /\ pc' = "complete"
    /\ effectPending' = TRUE
    /\ UNCHANGED <<tournamentVars, activeComponent, error, dashVars, statsVars,
                   driverStats, performanceTrend, opponentStats>>

\* a rollup that returns when the selected driver has no record, leaving the
\* previous driver's rollup in place
RollupEffectKeepsPrevious ==
    /\ effectPending
    /\ effectPending' = FALSE
    /\ IF selectedDriver = "" \/ Len(raceData) = 0
          \/ Len(RacesOf(raceData, selectedDriver)) = 0
       THEN UNCHANGED <<driverStats, performanceTrend, opponentStats>>
       ELSE LET driverRaces == RacesOf(raceData, selectedDriver)
            IN /\ driverStats' =
                    << [DriverStatsOf(selectedDriver, driverRaces)
                           EXCEPT !.raceHistory = raceHistoryRows(@)] >>
               /\ performanceTrend' = performanceData(driverRaces)
               /\ opponentStats' = opponentDataArray(driverRaces)
    /\ UNCHANGED <<tournamentVars, activeComponent, pc, raceData, loading, error, dashVars, statsVars,
                   drivers, selectedDriver>>

\* a rollup whose driverRaces is raceData itself when every record is the
\* selected driver's, so that the render's sort reorders raceData
RollupEffectSharesArray ==
    /\ effectPending
    /\ effectPending' = FALSE
    /\ IF selectedDriver = "" \/ Len(raceData) = 0
       THEN UNCHANGED <<raceData, driverStats, performanceTrend, opponentStats>>
       ELSE LET driverRaces == RacesOf(raceData, selectedDriver)
            IN IF Len(driverRaces) = 0
               THEN /\ driverStats' = <<>>
                    /\ performanceTrend' = <<>>
                    /\ opponentStats' = <<>>
                    /\ UNCHANGED raceData
               ELSE /\ driverStats' =
                         << [DriverStatsOf(selectedDriver, driverRaces)
                                EXCEPT !.raceHistory = raceHistoryRows(@)] >>
                    /\ performanceTrend' = performanceData(driverRaces)
                    /\ opponentStats' = opponentDataArray(driverRaces)
                    /\ raceData' = IF driverRaces = raceData
                                   THEN raceHistoryRows(raceData) ELSE raceData
    /\ UNCHANGED <<tournamentVars, activeComponent, pc, loading, error, dashVars, statsVars,
                   drivers, selectedDriver>>

\* the rollup effect (deps: selectedDriver, raceData) and the render that
\* follows its setDriverStats: driverRaces is a new array (filter), which
\* the race history table then sorts in place
RollupEffect ==
    /\ effectPending
    /\ effectPending' = FALSE
    /\ IF selectedDriver = "" \/ Len(raceData) = 0
       THEN UNCHANGED <<driverStats, performanceTrend, opponentStats>>
       ELSE LET driverRaces == RacesOf(raceData, selectedDriver)
            IN IF Len(driverRaces) = 0
               THEN /\ driverStats' = <<>>
                    /\ performanceTrend' = <<>>
                    /\ opponentStats' = <<>>
               ELSE /\ driverStats' =
                         << [DriverStatsOf(selectedDriver, driverRaces)
                                EXCEPT !.raceHistory = raceHistoryRows(@)] >>
                    /\ performanceTrend' = performanceData(driverRaces)
                    /\ opponentStats' = opponentDataArray(driverRaces)
    /\ UNCHANGED <<tournamentVars, activeComponent, pc, raceData, loading, error, dashVars, statsVars,
                   drivers, selectedDriver>>

\* what the mounted view renders
Rendered == IF loading THEN "loading" ELSE IF error # Null THEN "error" ELSE "content"

\* a select whose change does not schedule the rollup effect
SelectDriverWithoutEffect ==
    /\ activeComponent = "drivers"
    /\ Rendered = "content"
    /\ ~effectPending
    /\ \E i \in 1..Len(drivers) :
        /\ StringOf(drivers[i]) # StringOf(selectedDriver)
        /\ selectedDriver' = StringOf(drivers[i])
    /\ UNCHANGED <<tournamentVars, activeComponent, pc, raceData, loading, error, dashVars, statsVars,
                   drivers, driverStats, performanceTrend, opponentStats, effectPending>>

\* the driver <select> onChange: the user picks an option other than the
\* one shown, and e.target.value is that option's value, a string; pending
\* effects are flushed before the event
SelectDriver ==
    /\ activeComponent = "drivers"
    /\ Rendered = "content"
    /\ ~effectPending
    /\ \E i \in 1..Len(drivers) :
        /\ StringOf(drivers[i]) # StringOf(selectedDriver)
        /\ selectedDriver' = StringOf(drivers[i])
    /\ effectPending' = TRUE
    /\ UNCHANGED <<tournamentVars, activeComponent, pc, raceData, loading, error, dashVars, statsVars,
                   drivers, driverStats, performanceTrend, opponentStats>>

Next ==
    \/ SetActiveComponent
    \/ FetchResolves
    \/ FetchRejects
    \/ ParseCompleteWithErrors
    \/ ParseError
    \/ DashboardComplete
    \/ StatisticsComplete
    \/ DriversComplete
    \/ RollupEffect
    \/ SelectDriver

Spec == Init /\ [][Next]_vars

-----------------------------------------------------------------------------
(* The fixture generator: simulateTournament *)

MaxDrivers == 5

\* const drivers: the first entries of the table
driverTable ==
    << [name |-> "Jerry Williams", carNo |-> "934"],
       [name |-> "Mike Anderson", carNo |-> "993"],
       [name |-> "Patick Pendergrass", carNo |-> "1X15"],
       [name |-> "Kavon Tibbs", carNo |-> "316"],
       [name |-> "Tracy Stroop", carNo |-> "396"],
       [name |-> "Kevin Beach", carNo |-> "1X37"],
       [name |-> "Darrell Morton", carNo |-> "1X17"] >>

\* const eventDates: the first one
eventDates == {"2024-03-14"}

\* null in the bracket represents a bye; undefined is what an index past the
\* end of an array reads
NullDriver == [name |-> "null", carNo |-> "null"]
Undefined == [name |-> "undefined", carNo |-> "undefined"]

\* parseFloat((Math.random() * 2.0 + 7.0).toFixed(4)): two of the values
ETs == {Num(7), Num(8)}

\* the Fisher-Yates shuffle of a copy of the first n drivers: any order
Shuffles(n) ==
    { [k \in 1..n |-> driverTable[f[k]]] :
        f \in { g \in [1..n -> 1..n] : \A a, b \in 1..n : g[a] = g[b] => a = b } }

\* Math.pow(2, Math.ceil(Math.log2(n))): log2(0) is -Infinity, whose power is 0
RECURSIVE PowerOfTwoFrom(_, _)
PowerOfTwoFrom(p, n) == IF p >= n THEN p ELSE PowerOfTwoFrom(2 * p, n)

\* pads to the next even number in place of the next power of two
roundsUpToEven(n) == n + (n % 2)

requiredDrivers(n) == IF n = 0 THEN 0 ELSE PowerOfTwoFrom(1, n)

byesNeeded(n) == requiredDrivers(n) - n

\* generateRaceData: the record of one run; the reaction, 60ft, 330ft and
\* MPH are further independent random draws that nothing in the generator reads
generateRaceData(driver, opponent, date, number, et) ==
    [driver |-> driver.name,
     carNo |-> driver.carNo,
     date |-> date,
     raceNumber |-> number,
     eighthET |-> et,
     opponent |-> IF opponent \notin {NullDriver, Undefined} THEN opponent.name ELSE "Bye",
     opponentCarNo |-> IF opponent \notin {NullDriver, Undefined} THEN opponent.carNo
                       ELSE "N/A",
     winLoss |-> "TBD"]

\* simulateTournament(eventDate) up to the while loop: shuffle, pad with byes
CallSimulateTournament ==
    /\ tpc = "idle"
    /\ \E date \in eventDates, n \in 0..MaxDrivers :
         \E shuffled \in Shuffles(n) :
            /\ eventDate' = date
            /\ tournamentDrivers' = shuffled \o [k \in 1..byesNeeded(n) |-> NullDriver]
            /\ currentRound' = shuffled \o [k \in 1..byesNeeded(n) |-> NullDriver]
    /\ nextRound' = <<>>
    /\ loopI' = 0
    /\ roundNumber' = 1
    /\ raceNumber' = 1
    /\ results' = <<>>
    /\ tpc' = "while"
    /\ UNCHANGED appVars

\* the for loop's body is entered
InRound == tpc = "while" /\ Len(currentRound) > 1 /\ loopI < Len(currentRound)

driver1 == currentRound[loopI + 1]
driver2 == IF loopI + 2 <= Len(currentRound) THEN currentRound[loopI + 2] ELSE Undefined

\* if (driver1 === null): driver2 advances, with a bye record when it is a driver
ByeInFirstSlot ==
    /\ InRound
    /\ driver1 = NullDriver
    /\ nextRound' = Append(nextRound, driver2)
    /\ IF driver2 \notin {NullDriver, Undefined}
       THEN /\ \E et \in ETs :
                 results' = Append(results,
                     [generateRaceData(driver2, NullDriver, eventDate, raceNumber, et)
                         EXCEPT !.winLoss = "Win"])
            /\ raceNumber' = raceNumber + 1
       ELSE UNCHANGED <<results, raceNumber>>
    /\ loopI' = loopI + 2
    /\ UNCHANGED <<appVars, eventDate, tournamentDrivers, currentRound, roundNumber, tpc>>

\* a bye that leaves the race number as it is
ByeInSecondSlotKeepsRaceNumber ==
    /\ InRound
    /\ driver1 # NullDriver
    /\ driver2 = NullDriver
    /\ nextRound' = Append(nextRound, driver1)
    /\ \E et \in ETs :
         results' = Append(results,
             [generateRaceData(driver1, NullDriver, eventDate, raceNumber, et)
                 EXCEPT !.winLoss = "Win"])
    /\ loopI' = loopI + 2
    /\ UNCHANGED <<appVars, eventDate, tournamentDrivers, currentRound, roundNumber, tpc,
                   raceNumber>>

\* if (driver2 === null): driver1 advances with a bye record
ByeInSecondSlot ==
    /\ InRound
    /\ driver1 # NullDriver
    /\ driver2 = NullDriver
    /\ nextRound' = Append(nextRound, driver1)
    /\ \E et \in ETs :
         results' = Append(results,
             [generateRaceData(driver1, NullDriver, eventDate, raceNumber, et)
                 EXCEPT !.winLoss = "Win"])
    /\ raceNumber' = raceNumber + 1
    /\ loopI' = loopI + 2
    /\ UNCHANGED <<appVars, eventDate, tournamentDrivers, currentRound, roundNumber, tpc>>

\* a race that the first lane always wins
RaceFirstLaneWins ==
    /\ InRound
    /\ driver1 # NullDriver
    /\ driver2 \notin {NullDriver, Undefined}
    /\ \E et1 \in ETs, et2 \in ETs :
         results' = results \o
             << [generateRaceData(driver1, driver2, eventDate, raceNumber, et1)
                    EXCEPT !.winLoss = "Win"],
                [generateRaceData(driver2, driver1, eventDate, raceNumber, et2)
                    EXCEPT !.winLoss = "Loss"] >>
    /\ nextRound' = Append(nextRound, driver1)
    /\ raceNumber' = raceNumber + 1
    /\ loopI' = loopI + 2
    /\ UNCHANGED <<appVars, eventDate, tournamentDrivers, currentRound, roundNumber, tpc>>

\* two drivers race: the lower ET wins, the second lane on equal ETs.  An
\* undefined driver2 makes generateRaceData(driver2, ...) throw a TypeError
Race ==
    /\ InRound
    /\ driver1 # NullDriver
    /\ driver2 # NullDriver
    /\ IF driver2 = Undefined
       THEN /\ tpc' = "threw"
            /\ UNCHANGED <<results, nextRound, raceNumber, loopI>>
       ELSE /\ \E et1 \in ETs, et2 \in ETs :
                 LET race1 == generateRaceData(driver1, driver2, eventDate, raceNumber, et1)
                     race2 == generateRaceData(driver2, driver1, eventDate, raceNumber, et2)
                 IN IF Lt(et1, et2)
                    THEN /\ results' = results \o << [race1 EXCEPT !.winLoss = "Win"],
                                                      [race2 EXCEPT !.winLoss = "Loss"] >>
                         /\ nextRound' = Append(nextRound, driver1)
                    ELSE /\ results' = results \o << [race1 EXCEPT !.winLoss = "Loss"],
                                                      [race2 EXCEPT !.winLoss = "Win"] >>
                         /\ nextRound' = Append(nextRound, driver2)
            /\ raceNumber' = raceNumber + 1
            /\ loopI' = loopI + 2
            /\ tpc' = tpc
    /\ UNCHANGED <<appVars, eventDate, tournamentDrivers, currentRound, roundNumber>>

\* the for loop ends: currentRound = nextRound; roundNumber++; the while
\* condition is tested, and results is returned when it fails
EndOfRound ==
    /\ tpc = "while"
    /\ Len(currentRound) > 1
    /\ loopI >= Len(currentRound)
    /\ currentRound' = nextRound
    /\ nextRound' = <<>>
    /\ loopI' = 0
    /\ roundNumber' = roundNumber + 1
    /\ tpc' = IF Len(nextRound) > 1 THEN "while" ELSE "done"
    /\ UNCHANGED <<appVars, eventDate, tournamentDrivers, raceNumber, results>>

\* the while condition fails at the first test: return results
ReturnResults ==
    /\ tpc = "while"
    /\ Len(currentRound) <= 1
    /\ tpc' = "done"
    /\ UNCHANGED <<appVars, eventDate, tournamentDrivers, currentRound, nextRound, loopI,
                   roundNumber, raceNumber, results>>

TournamentNext ==
    \/ CallSimulateTournament
    \/ ByeInFirstSlot
    \/ ByeInSecondSlot
    \/ Race
    \/ EndOfRound
    \/ ReturnResults

TournamentSpec == Init /\ [][TournamentNext]_vars

-----------------------------------------------------------------------------
(* Properties *)

\* a metric value that is recorded: a number greater than zero
Positive(v) == v.k = "num" /\ v.n > 0

\* the exits of fetchData that are load or parse failures
LoadFailures == {"fetchFailed", "parseErrors", "errorCallback"}

StatisticsShown == activeComponent = "statistics" /\ pc = "complete"
DashboardShown == activeComponent = "dashboard" /\ pc = "complete"

\* C1: when no (date, raceNumber) group is a valid head-to-head comparison
\* (an empty dataset, a dataset of byes), each of the four win-factor
\* percentages is 0, and none is NaN.
C1_NoComparisonsGiveZero ==
    (StatisticsShown /\ winAnalysis(raceData).totalComparisons = 0)
        => \A i \in 1..Len(winFactors) : winFactors[i].value = Num(0)

\* C2: in the radar chart, a metric whose minimum and maximum per-driver mean
\* are equal gets the midpoint score 50.
C2_DegenerateRangeGivesMidpoint ==
    (activeComponent = "drivers" /\ Rendered = "content" /\ driverStats # <<>>)
        => LET radar == radarData(driverStats[1], raceData)
               ranges == << findMinMaxReaction(raceData), findMinMaxSixtyFoot(raceData),
                            findMinMaxThreeThirty(raceData), findMinMaxEighthET(raceData),
                            findMinMaxEighthMPH(raceData) >>
           IN \A i \in 1..5 :
                  ranges[i].min = ranges[i].max => radar[i].value = Num(50)

\* C3: after a load or parse failure the view is in the terminal error
\* state: error is set, loading is false, the error view is rendered.
C3_FailureEndsInErrorView ==
    pc \in LoadFailures => (error # Null /\ loading = FALSE /\ Rendered = "error")

\* C4: after a load or parse failure no aggregation has run: raceData is
\* still empty and every derived state still has its initial value.
C4_NoAggregationOnLoadFailure ==
    pc \in LoadFailures =>
        /\ raceData = <<>>
        /\ dashVars = << <<>>, <<>>, <<>>, <<>> >>
        /\ statsVars = << <<>>, <<>>, <<>>, <<>>, <<>>, <<>>, <<>>,
                          <<>>, <<>>, <<>>, <<>>, <<>>, <<>>, <<>>, <<>> >>
        /\ drivers = <<>> /\ selectedDriver = ""
        /\ driverStats = <<>> /\ performanceTrend = <<>> /\ opponentStats = <<>>

\* a parse failure in the drivers view, after the rollup effect has run
C4_Witness ==
    activeComponent = "drivers" /\ pc = "parseErrors" /\ ~effectPending

\* the five core metrics by their CSV column
Metric(r, f) ==
    CASE f = "Reaction" -> r.Reaction
      [] f = "60ft" -> r.Sixty
      [] f = "330ft" -> r.ThreeThirty
      [] f = "1/8ET" -> r.EighthET
      [] f = "1/8MPH" -> r.EighthMPH

\* the recorded (> 0) values of metric f in recs: how many, their sum, their
\* mean (0 when there is none), their least and their greatest
RecordedCount(recs, f) == Cardinality({i \in DOMAIN recs : Positive(Metric(recs[i], f))})

RECURSIVE RecordedSum(_, _)
RecordedSum(recs, f) ==
    IF recs = <<>> THEN Num(0)
    ELSE LET v == Metric(Head(recs), f)
             rest == RecordedSum(Tail(recs), f)
         IN IF Positive(v) THEN Rat(rest.n * v.d + v.n * rest.d, rest.d * v.d) ELSE rest

RecordedMean(recs, f) ==
    LET c == RecordedCount(recs, f)
        t == RecordedSum(recs, f)
    IN IF c = 0 THEN Num(0) ELSE Rat(t.n, t.d * c)

RecordedValues(recs, f) ==
    {Metric(recs[i], f) : i \in {j \in DOMAIN recs : Positive(Metric(recs[j], f))}}

RecordedLeast(recs, f) ==
    LET vals == RecordedValues(recs, f)
    IN IF vals = {} THEN Num(0)
       ELSE CHOOSE v \in vals : \A w \in vals : v.n * w.d <= w.n * v.d

RecordedGreatest(recs, f) ==
    LET vals == RecordedValues(recs, f)
    IN IF vals = {} THEN Num(0)
       ELSE CHOOSE v \in vals : \A w \in vals : v.n * w.d >= w.n * v.d

OnDate(data, date) == SelectSeq(data, LAMBDA r : r.Date = date)
DriverSet(data) == {data[i].Driver : i \in DOMAIN data}

RollupShown == activeComponent = "drivers" /\ driverStats # <<>>

\* C5: every per-driver and per-date average of the dashboard, and every
\* average and best value of the per-driver rollup, is computed from the
\* values of its metric that are > 0 and from nothing else.
C5_AggregatesUseRecordedValuesOnly ==
    /\ DashboardShown =>
        /\ \A i \in DOMAIN reactionTimes :
             \E dr \in DriverSet(raceData) :
                 /\ DisplayNameShort(dr) = reactionTimes[i].driver
                 /\ RecordedCount(RacesOf(raceData, dr), "Reaction") > 0
                 /\ reactionTimes[i].value
                      = ToFixed(RecordedMean(RacesOf(raceData, dr), "Reaction"), 3)
        /\ \A i \in DOMAIN avgSpeedByDriver :
             \E dr \in DriverSet(raceData) :
                 /\ DisplayNameShort(dr) = avgSpeedByDriver[i].driver
                 /\ RecordedCount(RacesOf(raceData, dr), "1/8MPH") > 0
                 /\ avgSpeedByDriver[i].speed
                      = ToFixed(RecordedMean(RacesOf(raceData, dr), "1/8MPH"), 2)
        /\ \A i \in DOMAIN performanceByRace :
             LET recs == OnDate(raceData, performanceByRace[i].date)
             IN /\ performanceByRace[i].et = ToFixed(RecordedMean(recs, "1/8ET"), 3)
                /\ performanceByRace[i].mph = ToFixed(RecordedMean(recs, "1/8MPH"), 2)
    /\ RollupShown =>
        LET ds == driverStats[1]
            recs == RacesOf(raceData, ds.name)
        IN /\ ds.avgReaction = RecordedMean(recs, "Reaction")
           /\ ds.avg60ft = RecordedMean(recs, "60ft")
           /\ ds.avg330ft = RecordedMean(recs, "330ft")
           /\ ds.avgEighthET = RecordedMean(recs, "1/8ET")
           /\ ds.avgEighthMPH = RecordedMean(recs, "1/8MPH")
           /\ ds.bestReaction = RecordedLeast(recs, "Reaction")
           /\ ds.bestSixtyFoot = RecordedLeast(recs, "60ft")
           /\ ds.bestThreeThirty = RecordedLeast(recs, "330ft")
           /\ ds.bestEighthET = RecordedLeast(recs, "1/8ET")
           /\ ds.bestEighthMPH = RecordedGreatest(recs, "1/8MPH")

\* a rollup of a driver who has a negative MPH, a zero and a missing 330ft
\* time, and recorded speeds and elapsed times
C5_Witness ==
    /\ RollupShown
    /\ LET recs == driverStats[1].raceHistory
       IN /\ \E i \in DOMAIN recs : recs[i].EighthMPH.k = "num" /\ recs[i].EighthMPH.n < 0
          /\ \E i \in DOMAIN recs : recs[i].ThreeThirty = Num(0)
          /\ \E i \in DOMAIN recs : recs[i].ThreeThirty = JsNull
          /\ RecordedCount(recs, "1/8MPH") > 0
          /\ RecordedCount(recs, "1/8ET") > 1

\* C6: the overview's Average MPH and Average ET are the means of the
\* recorded (> 0) values, and are a number even for an empty dataset.
C6_OverviewAveragesUseRecordedValuesOnly ==
    DashboardShown =>
        /\ ~IsNaN(averageMPHCard(raceData))
        /\ ~IsNaN(averageETCard(raceData))
        /\ RecordedCount(raceData, "1/8MPH") > 0 =>
               averageMPHCard(raceData) = ToFixed(RecordedMean(raceData, "1/8MPH"), 2)
        /\ RecordedCount(raceData, "1/8ET") > 0 =>
               averageETCard(raceData) = ToFixed(RecordedMean(raceData, "1/8ET"), 2)

\* C7: the count reported with a per-date average ET and MPH is the number
\* of recorded (> 0) values that were averaged.
C7_CountIsNumberOfAveragedValues ==
    DashboardShown =>
        \A i \in DOMAIN performanceByRace :
            LET recs == OnDate(raceData, performanceByRace[i].date)
            IN /\ performanceByRace[i].count = RecordedCount(recs, "1/8ET")
               /\ performanceByRace[i].count = RecordedCount(recs, "1/8MPH")

RaceCount(data, dr) == Cardinality({i \in DOMAIN data : data[i].Driver = dr})
WinCount(data, dr) ==
    Cardinality({i \in DOMAIN data : data[i].Driver = dr /\ data[i].WinLoss = "Win"})

\* C8: the win-rate leaderboard lists exactly the drivers with at least 3
\* race records (3 is listed, 2 is not), each with wins / races * 100, sorted
\* by that value descending.
C8_WinRateLeaderboardMinimumThreeRaces ==
    StatisticsShown =>
        LET eligible == {dr \in DriverSet(raceData) : RaceCount(raceData, dr) >= 3}
        IN /\ \A i \in DOMAIN bestWinRate :
                LET e == bestWinRate[i]
                IN /\ e.driver \in eligible
                   /\ e.value.k = "num"
                   /\ e.value.n * RaceCount(raceData, e.driver)
                        = 100 * WinCount(raceData, e.driver) * e.value.d
           /\ \A i, j \in DOMAIN bestWinRate :
                i < j => /\ bestWinRate[i].driver # bestWinRate[j].driver
                         /\ bestWinRate[i].value.n * bestWinRate[j].value.d
                              >= bestWinRate[j].value.n * bestWinRate[i].value.d
           /\ Len(bestWinRate) = Min(10, Cardinality(eligible))

\* a driver with exactly 3 records is listed while a driver with exactly 2
\* records is in the dataset
C8_Witness ==
    /\ StatisticsShown
    /\ \E i \in DOMAIN bestWinRate : RaceCount(raceData, bestWinRate[i].driver) = 3
    /\ \E dr \in DriverSet(raceData) : RaceCount(raceData, dr) = 2

\* C9: no driver with fewer than 3 race records is in the dashboard's top-6
\* win-percentage list.
C9_DashboardWinRatesMinimumThreeRaces ==
    DashboardShown =>
        \A i \in DOMAIN driverWinRates :
            \E dr \in DriverSet(raceData) :
                /\ DisplayName(dr) = driverWinRates[i].name
                /\ RaceCount(raceData, dr) >= 3

\* the entries of board with value v are the first entries, in input order,
\* of the records whose metric f is v
TiesInInputOrder(board, f) ==
    \A v \in {board[i].value : i \in DOMAIN board} :
        LET listed == SelectSeq(board, LAMBDA e : e.value = v)
            source == SelectSeq(raceData, LAMBDA r : Metric(r, f) = v)
        IN /\ Len(listed) <= Len(source)
           /\ \A k \in DOMAIN listed : listed[k] = LeaderboardEntry(source[k], v)

Ascending(board) ==
    \A i, j \in DOMAIN board :
        i < j => board[i].value.n * board[j].value.d <= board[j].value.n * board[i].value.d

Descending(board) ==
    \A i, j \in DOMAIN board :
        i < j => board[i].value.n * board[j].value.d >= board[j].value.n * board[i].value.d

\* C10: each record-level leaderboard has at most 10 entries, is sorted
\* (times ascending, MPH descending) and lists equal values in input order.
C10_RecordLeaderboardsSortedStableTopTen ==
    StatisticsShown =>
        /\ Len(bestET) <= 10 /\ Ascending(bestET) /\ TiesInInputOrder(bestET, "1/8ET")
        /\ Len(topSpeed) <= 10 /\ Descending(topSpeed)
        /\ TiesInInputOrder(topSpeed, "1/8MPH")
        /\ Len(bestReaction) <= 10 /\ Ascending(bestReaction)
        /\ TiesInInputOrder(bestReaction, "Reaction")
        /\ Len(best60ft) <= 10 /\ Ascending(best60ft) /\ TiesInInputOrder(best60ft, "60ft")

\* more than ten recorded elapsed times, the cut falling inside a tie
C10_Witness ==
    /\ StatisticsShown
    /\ RecordedCount(raceData, "1/8ET") > 10
    /\ Len(bestET) = 10
    /\ bestET[1].value # bestET[10].value
    /\ \E i \in DOMAIN raceData :
          /\ raceData[i].EighthET = bestET[10].value
          /\ Cardinality({j \in DOMAIN raceData : raceData[j].EighthET = bestET[10].value})
               > Cardinality({k \in DOMAIN bestET : bestET[k].value = bestET[10].value})


\* record r is at least as good as value v on a leaderboard of times
\* (lower is better) or of speeds (higher is better)
NotWorse(v, w, lowerIsBetter) ==
    IF lowerIsBetter THEN v.n * w.d <= w.n * v.d ELSE v.n * w.d >= w.n * v.d

\* board holds the best ten of the records whose metric f is recorded (> 0):
\* it has ten entries or one per such record, and a record that is not
\* listed is not better than any listed entry
TopTenOfRecorded(board, f, lowerIsBetter) ==
    /\ Len(board) = Min(10, RecordedCount(raceData, f))
    /\ \A i \in DOMAIN raceData :
          Positive(Metric(raceData[i], f)) =>
              \/ \E k \in DOMAIN board :
                     board[k] = LeaderboardEntry(raceData[i], Metric(raceData[i], f))
              \/ \A k \in DOMAIN board :
                     NotWorse(board[k].value, Metric(raceData[i], f), lowerIsBetter)

\* C11: each record-level leaderboard is the top 10 of all the records whose
\* metric is > 0; the best-reaction leaderboard counts every reaction time
\* > 0 as eligible.
C11_LeaderboardsAreTopTenOfRecorded ==
    StatisticsShown =>
        /\ TopTenOfRecorded(bestET, "1/8ET", TRUE)
        /\ TopTenOfRecorded(topSpeed, "1/8MPH", FALSE)
        /\ TopTenOfRecorded(best60ft, "60ft", TRUE)
        /\ TopTenOfRecorded(bestReaction, "Reaction", TRUE)


DriversShown == activeComponent = "drivers" /\ pc = "complete"

\* C12: every driver-aggregate leaderboard (most wins, best win rate,
\* consistency, ET and MPH improvement, the dashboard's win percentages,
\* average reactions and average speeds) has at most 6 entries.
C12_DriverLeaderboardsAtMostSix ==
    /\ StatisticsShown =>
        /\ Len(mostWins) <= 6 /\ Len(bestWinRate) <= 6
        /\ Len(consistencyRanking) <= 6
        /\ Len(improvementRanking) <= 6 /\ Len(mphImprovementRanking) <= 6
    /\ DashboardShown =>
        Len(driverWinRates) <= 6 /\ Len(reactionTimes) <= 6 /\ Len(avgSpeedByDriver) <= 6

\* C13: for a selected driver with at least one record, the rollup has
\* races = the number of the driver's records, wins and losses = the number
\* with result Win and Loss, wins + losses <= races and
\* winRate = wins / races * 100.
C13_RollupWinsLossesAndWinRate ==
    RollupShown =>
        LET ds == driverStats[1]
            mine == {i \in DOMAIN raceData : raceData[i].Driver = ds.name}
        IN /\ ds.races = Cardinality(mine) /\ ds.races >= 1
           /\ ds.wins = Cardinality({i \in mine : raceData[i].WinLoss = "Win"})
           /\ ds.losses = Cardinality({i \in mine : raceData[i].WinLoss = "Loss"})
           /\ ds.wins + ds.losses <= ds.races
           /\ ds.winRate.k = "num"
           /\ ds.winRate.n * ds.races = 100 * ds.wins * ds.winRate.d

\* a rollup of a driver with a win, a loss and a run without a result
C13_Witness ==
    /\ RollupShown
    /\ driverStats[1].wins > 0 /\ driverStats[1].losses > 0
    /\ driverStats[1].wins + driverStats[1].losses < driverStats[1].races

\* the sum of the squares of the recorded (> 0) values of metric f in recs
RECURSIVE RecordedSumOfSquares(_, _)
RecordedSumOfSquares(recs, f) ==
    IF recs = <<>> THEN Num(0)
    ELSE LET v == Metric(Head(recs), f)
             rest == RecordedSumOfSquares(Tail(recs), f)
         IN IF Positive(v) THEN Rat(rest.n * v.d * v.d + v.n * v.n * rest.d, rest.d * v.d * v.d)
            ELSE rest

\* the population variance of the recorded values: E[x^2] - (E[x])^2
PopulationVariance(recs, f) ==
    LET c == RecordedCount(recs, f)
        s == RecordedSum(recs, f)
        q == RecordedSumOfSquares(recs, f)
    IN Rat(q.n * c * s.d * s.d - s.n * s.n * q.d, q.d * s.d * s.d * c * c)

\* the drivers with at least three recorded elapsed times
ConsistencyEligible ==
    {dr \in DriverSet(raceData) : RecordedCount(RacesOf(raceData, dr), "1/8ET") >= 3}

\* C15: the consistency ranking lists a driver only with at least 3 valid ET
\* samples (3 is eligible, 2 is not); the value is the population standard
\* deviation of those samples; the ranking is ascending and holds the first
\* 6 of the eligible drivers.
C15_ConsistencyRanking ==
    StatisticsShown =>
        /\ Len(consistencyRanking) = Min(6, Cardinality(ConsistencyEligible))
        /\ \A i \in DOMAIN consistencyRanking :
              LET e == consistencyRanking[i]
                  var == PopulationVariance(RacesOf(raceData, e.driver), "1/8ET")
              IN /\ e.driver \in ConsistencyEligible
                 /\ e.value.k = "sqrt"
                 /\ e.value.n * var.d = var.n * e.value.d
                 /\ e.races = RecordedCount(RacesOf(raceData, e.driver), "1/8ET")
        /\ \A i, j \in DOMAIN consistencyRanking :
              /\ i < j => consistencyRanking[i].value.n * consistencyRanking[j].value.d
                            <= consistencyRanking[j].value.n * consistencyRanking[i].value.d
              /\ i # j => consistencyRanking[i].driver # consistencyRanking[j].driver

\* a ranking of drivers with different deviations, one of them with exactly
\* 3 samples, while another driver has exactly 2 and is not listed
C15_Witness ==
    /\ StatisticsShown
    /\ \E i, j \in DOMAIN consistencyRanking :
          /\ consistencyRanking[i].value # consistencyRanking[j].value
          /\ consistencyRanking[i].races = 3
          /\ consistencyRanking[i].value.n > 0
    /\ \E dr \in DriverSet(raceData) :
          RecordedCount(RacesOf(raceData, dr), "1/8ET") = 2

\* the values of metric f in the driver's records that are > 0, ordered by
\* date and, within a date, by position in the file
ChronologicalValues(dr, f) ==
    LET idx == {i \in DOMAIN raceData : raceData[i].Driver = dr /\ Positive(Metric(raceData[i], f))}
        before(i, j) == \/ GetTime(raceData[i].Date) < GetTime(raceData[j].Date)
                        \/ (raceData[i].Date = raceData[j].Date /\ i < j)
        at(p) == CHOOSE i \in idx : Cardinality({j \in idx : before(j, i)}) = p - 1
    IN [p \in 1..Cardinality(idx) |-> Metric(raceData[at(p)], f)]

\* mean of the last two minus mean of the first two of vals (at least 2 values)
LastTwoMinusFirstTwo(vals) ==
    LET n == Len(vals)
        first == Rat(vals[1].n * vals[2].d + vals[2].n * vals[1].d, 2 * vals[1].d * vals[2].d)
        last == Rat(vals[n - 1].n * vals[n].d + vals[n].n * vals[n - 1].d,
                    2 * vals[n - 1].d * vals[n].d)
    IN Rat(last.n * first.d - first.n * last.d, last.d * first.d)

\* ranking lists exactly the drivers with at least four recorded values of f
\* (up to ten of them), each with delta = last two - first two
ImprovementRankingOf(ranking, f) ==
    LET eligible == {dr \in DriverSet(raceData) :
                        RecordedCount(RacesOf(raceData, dr), f) >= 4}
    IN /\ Len(ranking) = Min(10, Cardinality(eligible))
       /\ \A i \in DOMAIN ranking :
             \E dr \in eligible :
                 /\ ranking[i].driver = DisplayName(dr)
                 /\ ranking[i].value = LastTwoMinusFirstTwo(ChronologicalValues(dr, f))
       /\ \A i, j \in DOMAIN ranking : i # j => ranking[i].driver # ranking[j].driver

\* C16: the ET and MPH improvement rankings list a driver only with at least
\* 4 valid samples (4 is eligible, 3 is excluded); the delta is the mean of
\* the last 2 minus the mean of the first 2 samples in chronological order;
\* the ET ranking is ascending by delta, the MPH ranking descending.
C16_ImprovementRankings ==
    StatisticsShown =>
        /\ ImprovementRankingOf(improvementRanking, "1/8ET")
        /\ Ascending(improvementRanking)
        /\ ImprovementRankingOf(mphImprovementRanking, "1/8MPH")
        /\ Descending(mphImprovementRanking)

\* two drivers in the ET ranking with different deltas, one with exactly 4
\* samples whose file order is not chronological, while another driver has
\* exactly 3 samples
C16_Witness ==
    /\ StatisticsShown
    /\ Len(improvementRanking) >= 2 /\ Len(mphImprovementRanking) >= 2
    /\ improvementRanking[1].value # improvementRanking[2].value
    /\ mphImprovementRanking[1].value # mphImprovementRanking[2].value
    /\ \E dr \in DriverSet(raceData) :
          /\ RecordedCount(RacesOf(raceData, dr), "1/8ET") = 4
          /\ \E i, j \in DOMAIN raceData :
                /\ i < j /\ raceData[i].Driver = dr /\ raceData[j].Driver = dr
                /\ GetTime(raceData[j].Date) < GetTime(raceData[i].Date)
    /\ \E dr \in DriverSet(raceData) : RecordedCount(RacesOf(raceData, dr), "1/8ET") = 3

\* the correlation points of x-metric f against ET: one per record with both
\* values > 0, in input order; z is the MPH when it is > 0, else 100
ExpectedPoints(f) ==
    LET both == SelectSeq(raceData, LAMBDA r : Positive(Metric(r, f)) /\ Positive(r.EighthET))
    IN [i \in 1..Len(both) |->
          [x |-> Metric(both[i], f), y |-> both[i].EighthET,
           z |-> IF Positive(both[i].EighthMPH) THEN both[i].EighthMPH ELSE Num(100),
           driver |-> both[i].Driver]]

\* C17: correlation extraction emits exactly one point per record whose x
\* and y are both > 0, in input order; z is the record's MPH when present
\* and 100 when the MPH is missing (absent or <= 0).
C17_CorrelationPoints ==
    StatisticsShown =>
        /\ reactionVsET = ExpectedPoints("Reaction")
        /\ sixtyVsET = ExpectedPoints("60ft")

\* the driver has records and none of them has a reaction time > 0
NoReactionRecorded(dr) ==
    /\ dr \in DriverSet(raceData)
    /\ RecordedCount(RacesOf(raceData, dr), "Reaction") = 0

\* C18: for a driver whose reaction time is missing in every record, the
\* rollup reports average reaction 0 and best reaction 0, and the driver has
\* no entry in the best-reaction leaderboard.
C18_NoReactionDriver ==
    /\ (RollupShown /\ NoReactionRecorded(driverStats[1].name)) =>
          driverStats[1].avgReaction = Num(0) /\ driverStats[1].bestReaction = Num(0)
    /\ StatisticsShown =>
          \A i \in DOMAIN bestReaction : ~NoReactionRecorded(bestReaction[i].driver)

\* the rollup of a driver whose reaction times are a zero and a negative
\* value, or absent
C18_Witness ==
    /\ RollupShown
    /\ NoReactionRecorded(driverStats[1].name)
    /\ \E i \in DOMAIN raceData :
          /\ raceData[i].Driver = driverStats[1].name
          /\ raceData[i].Reaction # JsNull
    /\ driverStats[1].races >= 2

NewestFirst(dr) ==
    LET idx == {i \in DOMAIN raceData : raceData[i].Driver = dr}
        before(i, j) == \/ GetTime(raceData[i].Date) > GetTime(raceData[j].Date)
                        \/ (raceData[i].Date = raceData[j].Date /\ i < j)
    IN [p \in 1..Cardinality(idx) |->
          raceData[CHOOSE i \in idx : Cardinality({j \in idx : before(j, i)}) = p - 1]]

\* the best of the recorded values of metric f in recs, or null
BestOrNull(recs, f, lowerIsBetter) ==
    IF RecordedCount(recs, f) = 0 THEN JsNull
    ELSE IF lowerIsBetter THEN RecordedLeast(recs, f) ELSE RecordedGreatest(recs, f)

\* C20: the displayed race history is the selected driver's records by date
\* descending; the performance trend has one point per date on which the
\* driver raced, by date ascending, with the minimum valid ET, maximum valid
\* MPH and minimum valid reaction of that date, null when there is none.
C20_RaceHistoryAndTrend ==
    RollupShown =>
        LET dr == driverStats[1].name
            mine == RacesOf(raceData, dr)
            dates == {mine[i].Date : i \in DOMAIN mine}
        IN /\ driverStats[1].raceHistory = NewestFirst(dr)
           /\ Len(performanceTrend) = Cardinality(dates)
           /\ \A i \in DOMAIN performanceTrend :
                 LET pt == performanceTrend[i]
                     day == OnDate(mine, pt.date)
                 IN /\ pt.date \in dates
                    /\ pt.et = BestOrNull(day, "1/8ET", TRUE)
                    /\ pt.mph = BestOrNull(day, "1/8MPH", FALSE)
                    /\ pt.reaction = BestOrNull(day, "Reaction", TRUE)
           /\ \A i, j \in DOMAIN performanceTrend :
                 i < j => GetTime(performanceTrend[i].date) < GetTime(performanceTrend[j].date)

\* a driver with records on several dates that are not in date order in the
\* file, two records on one date, and a date without a valid ET
C20_Witness ==
    /\ RollupShown
    /\ Len(performanceTrend) >= 2
    /\ Len(driverStats[1].raceHistory) > Len(performanceTrend)
    /\ \E i \in DOMAIN performanceTrend : performanceTrend[i].et = JsNull
    /\ \E i \in DOMAIN performanceTrend : performanceTrend[i].et # JsNull
    /\ LET mine == RacesOf(raceData, driverStats[1].name)
       IN \E i, j \in DOMAIN mine :
             i < j /\ GetTime(mine[j].Date) < GetTime(mine[i].Date)

\* C14: when the selected driver has no record in a non-empty dataset, the
\* rollup is the explicit no-data result: driverStats is null and the
\* performance trend and the opponent breakdown are empty.
C14_NoRecordsGivesNoData ==
    (/\ DriversShown /\ ~effectPending
     /\ selectedDriver # "" /\ raceData # <<>>
     /\ RacesOf(raceData, selectedDriver) = <<>>)
        => driverStats = <<>> /\ performanceTrend = <<>> /\ opponentStats = <<>>

\* the selected driver is in the driver list as the number 42, the option
\* picked gave the string "42", and the rollup effect has run
C14_Witness ==
    /\ DriversShown /\ ~effectPending
    /\ selectedDriver = "42"
    /\ \E i \in DOMAIN drivers : StringOf(drivers[i]) = selectedDriver
    /\ Len(raceData) > 2
    /\ driverStats = <<>>

RECURSIVE SumOfField(_, _)
SumOfField(rows, f) == IF rows = <<>> THEN 0 ELSE rows[1][f] + SumOfField(Tail(rows), f)

\* C21: the opponent breakdown has one row per distinct opponent of the
\* selected driver, each winRate is wins / races * 100, and the rows' races,
\* wins and losses add up to the rollup's races, wins and losses.
C21_OpponentBreakdownMatchesRollup ==
    RollupShown =>
        LET ds == driverStats[1]
            mine == RacesOf(raceData, ds.name)
            faced == {mine[i].Opponent : i \in DOMAIN mine}
        IN /\ Len(opponentStats) = Cardinality(faced)
           /\ {opponentStats[i].opponent : i \in DOMAIN opponentStats} = faced
           /\ \A i \in DOMAIN opponentStats :
                 LET row == opponentStats[i]
                 IN /\ row.races >= 1
                    /\ row.winRate.k = "num"
                    /\ row.winRate.n * row.races = 100 * row.wins * row.winRate.d
           /\ SumOfField(opponentStats, "races") = ds.races
           /\ SumOfField(opponentStats, "wins") = ds.wins
           /\ SumOfField(opponentStats, "losses") = ds.losses

\* the (date, raceNumber) groups of raceData
GroupKeys == {<<raceData[i].Date, raceData[i].RaceNumber>> : i \in DOMAIN raceData}
GroupOf(key) == SelectSeq(raceData, LAMBDA r : <<r.Date, r.RaceNumber>> = key)

\* a head-to-head pair: exactly two records, one Win and one Loss
HeadToHead(key) ==
    /\ Len(GroupOf(key)) = 2
    /\ {GroupOf(key)[1].WinLoss, GroupOf(key)[2].WinLoss} = {"Win", "Loss"}

HeadToHeadKeys == {key \in GroupKeys : HeadToHead(key)}
WinnerOf(key) == IF GroupOf(key)[1].WinLoss = "Win" THEN GroupOf(key)[1] ELSE GroupOf(key)[2]
LoserOf(key) == IF GroupOf(key)[1].WinLoss = "Loss" THEN GroupOf(key)[1] ELSE GroupOf(key)[2]

\* the four factors in the order of winFactors, and whether lower is better
FactorMetric == << "Reaction", "60ft", "330ft", "1/8MPH" >>
FactorLowerIsBetter == << TRUE, TRUE, TRUE, FALSE >>

\* the winner's value of factor i is strictly better than the loser's
WinnerStrictlyBetter(key, i) ==
    LET w == Metric(WinnerOf(key), FactorMetric[i])
        l == Metric(LoserOf(key), FactorMetric[i])
    IN IF FactorLowerIsBetter[i] THEN w.n * l.d < l.n * w.d ELSE w.n * l.d > l.n * w.d

\* the head-to-head pairs in which both values of factor i are numbers other
\* than 0 and the winner's is strictly better
PairsWithBetterNonZero(i) ==
    {key \in HeadToHeadKeys :
        /\ Metric(WinnerOf(key), FactorMetric[i]).k = "num"
        /\ Metric(WinnerOf(key), FactorMetric[i]).n # 0
        /\ Metric(LoserOf(key), FactorMetric[i]).k = "num"
        /\ Metric(LoserOf(key), FactorMetric[i]).n # 0
        /\ WinnerStrictlyBetter(key, i)}

\* C22: a (date, raceNumber) group counts in totalComparisons exactly when it
\* has two records, one Win and one Loss; every other group adds nothing to
\* the denominator or to a tally.
C22_DenominatorCountsHeadToHeadPairsOnly ==
    StatisticsShown =>
        LET wa == winAnalysis(raceData)
            n == Cardinality(HeadToHeadKeys)
        IN /\ wa.totalComparisons = n
           /\ wa.betterReaction = Cardinality(PairsWithBetterNonZero(1))
           /\ wa.better60ft = Cardinality(PairsWithBetterNonZero(2))
           /\ wa.better330 = Cardinality(PairsWithBetterNonZero(3))
           /\ wa.betterMPH = Cardinality(PairsWithBetterNonZero(4))
           /\ winFactors = winFactorsData(raceData)
           /\ n > 0 => \A i \in 1..4 :
                 winFactors[i].value.n * n
                    = 100 * Cardinality(PairsWithBetterNonZero(i)) * winFactors[i].value.d

\* a head-to-head pair next to a single record and a group of more than two
\* records that has a Win and a Loss
C22_Witness ==
    /\ StatisticsShown
    /\ HeadToHeadKeys # {}
    /\ \E key \in GroupKeys : Len(GroupOf(key)) = 1
    /\ \E key \in GroupKeys : Len(GroupOf(key)) > 2 /\ ComparedWhateverSize(GroupOf(key))

\* the head-to-head pairs in which both values of factor i are present (> 0)
\* and the winner's is strictly better
PairsWithBetterPresent(i) ==
    {key \in HeadToHeadKeys :
        /\ Positive(Metric(WinnerOf(key), FactorMetric[i]))
        /\ Positive(Metric(LoserOf(key), FactorMetric[i]))
        /\ WinnerStrictlyBetter(key, i)}

\* C23: over the head-to-head pairs, a factor's tally counts the pairs in
\* which both values are present and the winner's is strictly better; each
\* percentage is tally / totalComparisons * 100 and lies in 0..100.
C23_TalliesCountStrictlyBetterPresentValues ==
    (StatisticsShown /\ HeadToHeadKeys # {}) =>
        \A i \in 1..4 :
            /\ winFactors[i].value.k = "num"
            /\ winFactors[i].value.n * Cardinality(HeadToHeadKeys)
                  = 100 * Cardinality(PairsWithBetterPresent(i)) * winFactors[i].value.d
            /\ winFactors[i].value.n >= 0
            /\ winFactors[i].value.n <= 100 * winFactors[i].value.d

\* C25: each of the five normalized radar scores (reaction, 60ft, 330ft,
\* 1/8 ET, 1/8 MPH) of a rendered rollup is a number in 0..100.
C25_RadarScoresWithinZeroAndHundred ==
    (activeComponent = "drivers" /\ Rendered = "content" /\ driverStats # <<>>)
        => LET radar == radarData(driverStats[1], raceData)
           IN \A i \in 1..5 :
                  /\ radar[i].value.k = "num"
                  /\ radar[i].value.n >= 0
                  /\ radar[i].value.n <= 100 * radar[i].value.d

\* the bucket of a record in the race-index time series: its RaceNumber
\* (0 when missing), capped at 10
BucketOf(r) ==
    LET n == IF r.RaceNumber.k = "num" THEN r.RaceNumber ELSE Num(0)
    IN IF n.n > 10 * n.d THEN Num(10) ELSE n

InBucket(b) == SelectSeq(raceData, LAMBDA r : BucketOf(r) = b)
TimeSeriesMetric == [avgET |-> "1/8ET", avgReaction |-> "Reaction", avgMPH |-> "1/8MPH"]

\* C26: processStatistics does not throw, whatever numeric fields (the
\* RaceNumber included) are missing, zero or negative: once the file is
\* parsed without errors, every derived view up to the heat map and the
\* improvement rankings is set, no error is set, and loading is false.
C26_ProcessStatisticsNeverThrows ==
    (activeComponent = "statistics" /\ pc \in {"complete", "threw"}) =>
        /\ pc = "complete"
        /\ error = Null
        /\ loading = FALSE
        /\ heatMap = heatMapData(raceData)
        /\ improvementRanking = improvementData(raceData)
        /\ mphImprovementRanking = mphImprovementData(raceData)

\* C27: the race-index time series has one entry per bucket with a valid ET,
\* reaction or MPH, and each of avgET, avgReaction, avgMPH is the sum of the
\* bucket's valid values of that metric divided by their number.
C27_TimeSeriesAveragesUseOwnCounts ==
    StatisticsShown =>
        LET buckets == {BucketOf(raceData[i]) : i \in DOMAIN raceData}
            reported == {b \in buckets : \E f \in {"1/8ET", "Reaction", "1/8MPH"} :
                             RecordedCount(InBucket(b), f) > 0}
        IN /\ {performanceByTime[i].raceNumber : i \in DOMAIN performanceByTime} = reported
           /\ Len(performanceByTime) = Cardinality(reported)
           /\ \A i \in DOMAIN performanceByTime :
                \A a \in DOMAIN TimeSeriesMetric :
                    LET recs == InBucket(performanceByTime[i].raceNumber)
                        count == RecordedCount(recs, TimeSeriesMetric[a])
                    IN count > 0 =>
                         performanceByTime[i][a] = RecordedMean(recs, TimeSeriesMetric[a])

\* the rollup effect has run for the current selection
RollupSettled == DriversShown /\ ~effectPending /\ raceData # <<>>

\* the displayed rollup is the selected driver's, or "no data" when no
\* record carries the selected name
RollupIsOfSelectedDriver ==
    RollupSettled =>
        LET mine == SelectSeq(raceData, LAMBDA r : r.Driver = selectedDriver)
        IN IF mine = <<>>
           THEN driverStats = <<>>
           ELSE /\ driverStats # <<>>
                /\ driverStats[1].name = selectedDriver
                /\ driverStats[1].races = Len(mine)

\* the load selects the first driver name in alphabetical order
LoadSelectsFirstDriver ==
    (activeComponent = "drivers" /\ pc = "text" /\ pc' = "complete" /\ raceData' # <<>>) =>
        /\ \E i \in DOMAIN raceData' : raceData'[i].Driver = selectedDriver'
        /\ \A i \in DOMAIN raceData' :
               NameRank(selectedDriver') <= NameRank(raceData'[i].Driver)

ResultKeys == {<<results[k].date, results[k].raceNumber>> : k \in DOMAIN results}
ResultGroup(key) == SelectSeq(results, LAMBDA r : <<r.date, r.raceNumber>> = key)

\* a Win record and a Loss record that name each other as opponent
IsRacePair(g) ==
    /\ Len(g) = 2
    /\ {g[1].winLoss, g[2].winLoss} = {"Win", "Loss"}
    /\ g[1].opponent = g[2].driver /\ g[1].opponentCarNo = g[2].carNo
    /\ g[2].opponent = g[1].driver /\ g[2].opponentCarNo = g[1].carNo

IsByeRecord(g) == Len(g) = 1 /\ g[1].winLoss = "Win" /\ g[1].opponent = "Bye"

\* C24: in the records simulateTournament returns, every (date, raceNumber)
\* group is a Win/Loss pair whose opponent fields name each other or one bye
\* record with result Win and opponent Bye, and no record has the result TBD.
C24_GroupsArePairsOrByes ==
    tpc = "done" =>
        /\ \A key \in ResultKeys :
               IsRacePair(ResultGroup(key)) \/ IsByeRecord(ResultGroup(key))
        /\ \A k \in DOMAIN results : results[k].winLoss # "TBD"

\* a finished event of five drivers: a bye in each of the first two rounds
C24_Witness ==
    /\ tpc = "done"
    /\ Len(results) = 10
    /\ Cardinality({key \in ResultKeys : IsByeRecord(ResultGroup(key))}) = 2
    /\ Cardinality({key \in ResultKeys : IsRacePair(ResultGroup(key))}) = 4

\* the drivers of the event, and the records in which a driver lost
EventDrivers ==
    {tournamentDrivers[k].name : k \in {j \in DOMAIN tournamentDrivers :
                                            tournamentDrivers[j] # NullDriver}}
LossesOf(d) == {k \in DOMAIN results : results[k].driver = d /\ results[k].winLoss = "Loss"}

RECURSIVE Pow2(_)
Pow2(k) == IF k <= 0 THEN 1 ELSE 2 * Pow2(k - 1)
IsPowerOfTwo(n) == n >= 1 /\ PowerOfTwoFrom(1, n) = n

\* the bracket of a non-empty driver list: a power of two with room for the
\* drivers, halved by every round, and one driver at the end
BracketOfDrivers ==
    /\ IsPowerOfTwo(Len(tournamentDrivers))
    /\ Len(tournamentDrivers) >= Cardinality(EventDrivers)
    /\ Len(currentRound) * Pow2(roundNumber - 1) = Len(tournamentDrivers)
    /\ tpc # "threw"
    /\ tpc = "while" => ENABLED TournamentNext
    /\ tpc = "done" => Len(currentRound) = 1 /\ currentRound[1].name \in EventDrivers

C29_SingleElimination ==
    (tpc \in {"while", "done"} /\ tournamentDrivers # <<>>) =>
        /\ \A k \in DOMAIN results : results[k].winLoss = "Loss" =>
              \A j \in DOMAIN results :
                 /\ results[j].driver = results[k].driver =>
                        /\ results[j].raceNumber <= results[k].raceNumber
                        /\ j # k => results[j].winLoss # "Loss"
                 /\ (/\ results[j].raceNumber = results[k].raceNumber
                     /\ results[j].date = results[k].date
                     /\ results[j].winLoss = "Win")
                        => ~Lt(results[k].eighthET, results[j].eighthET)
        /\ tpc = "done" => Cardinality({d \in EventDrivers : LossesOf(d) = {}}) = 1

\* a finished event of five drivers in which a race ended on equal ETs and
\* another was won by the first lane
C29_Witness ==
    /\ tpc = "done"
    /\ Cardinality(EventDrivers) = 5
    /\ \E j, k \in DOMAIN results :
          /\ j < k /\ results[j].raceNumber = results[k].raceNumber
          /\ results[j].eighthET = results[k].eighthET /\ results[k].winLoss = "Win"
    /\ \E j, k \in DOMAIN results :
          /\ j < k /\ results[j].raceNumber = results[k].raceNumber
          /\ results[j].winLoss = "Win" /\ results[k].winLoss = "Loss"
=============================================================================
